---- MODULE Spec2Model ----
(***************************************************************************)
(* ai-anvil-tui: the orchestration controller (ui::App), its panels, and   *)
(* the source factory it reloads from.                                     *)
(*                                                                         *)
(* Strings are sequences of one-character strings, so that the code's      *)
(* string operations (starts_with, split, insert, remove, sort) are        *)
(* computed and not assumed.                                               *)
(***************************************************************************)
EXTENDS Integers, Sequences, FiniteSets, TLC

\* ------------------------------------------------------------------ bounds
\* Number of key events the user sends in one run.
MaxKeys == 5
\* Number of files of the environment (a directory tree or a repository).
MaxFiles == 2

\* ------------------------------------------------------------- characters
\* The characters of the model's strings, in byte order (str's Ord).
CharOrder == <<"*", ".", "/", ":", "a", "b", "c", "d", "e", "g", "h", "i",
               "m", "n", "o", "p", "r", "s", "t", "u", "x">>

CharCode(c) == CHOOSE i \in 1..Len(CharOrder) : CharOrder[i] = c

\* str::cmp: lexicographic byte order, a proper prefix first.
RECURSIVE StrLess(_, _)
StrLess(a, b) ==
    IF b = <<>> THEN FALSE
    ELSE IF a = <<>> THEN TRUE
    ELSE IF Head(a) = Head(b) THEN StrLess(Tail(a), Tail(b))
    ELSE CharCode(Head(a)) < CharCode(Head(b))

\* The element of a one-element set.  Only({e(x) : x \in {v}}) is e(v) with
\* v computed once.
Only(S) == CHOOSE x \in S : TRUE

StartsWith(s, p) == Len(s) >= Len(p) /\ SubSeq(s, 1, Len(p)) = p

EndsWith(s, p) == Len(s) >= Len(p) /\ SubSeq(s, Len(s) - Len(p) + 1, Len(s)) = p

\* str::split(sep): the pieces between the separators, empty pieces kept.
RECURSIVE Split(_, _)
Split(str, sep) ==
    Only({IF \A i \in 1..Len(s) : s[i] # sep THEN <<s>>
          ELSE Only({<<SubSeq(s, 1, i - 1)>>
                         \o Split(SubSeq(s, i + 1, Len(s)), sep) :
                     i \in {CHOOSE k \in 1..Len(s) :
                               s[k] = sep /\ \A j \in 1..(k - 1) : s[j] # sep}})
          : s \in {str}})

\* str::trim_end_matches(pat): the suffix is removed as often as it matches.
RECURSIVE TrimEndMatches(_, _)
TrimEndMatches(s, pat) ==
    IF pat # <<>> /\ EndsWith(s, pat)
    THEN TrimEndMatches(SubSeq(s, 1, Len(s) - Len(pat)), pat)
    ELSE s

\* [T]::join(sep)
RECURSIVE Join(_, _)
Join(parts, sep) ==
    IF parts = <<>> THEN <<>>
    ELSE IF Len(parts) = 1 THEN parts[1]
    ELSE parts[1] \o sep \o Join(Tail(parts), sep)

\* The elements of a set of strings as a sequence in ascending order
\* (BTreeSet iteration, and Vec::sort of distinct strings).
RECURSIVE SortedSeq(_)
SortedSeq(set) ==
    Only({IF S = {} THEN <<>>
          ELSE Only({<<m>> \o SortedSeq(S \ {m}) :
                     m \in {CHOOSE x \in S :
                               \A y \in S \ {x} : StrLess(x, y)}})
          : S \in {set}})

Range(s) == {s[i] : i \in 1..Len(s)}

\* ------------------------------------------------------------ input (mod.rs)
Ok(v) == [ok |-> TRUE, val |-> v]

Err(e) == [ok |-> FALSE, err |-> e]

Some(v) == [some |-> TRUE, val |-> v]

None == [some |-> FALSE, val |-> <<>>]

HttpsScheme == <<"h", "t", "t", "p", "s">>

GitHubHost == <<"g", "i", "t", "h", "u", "b", ".", "c", "o", "m">>

\* The literal "https://github.com" of create_text_source.
GitHubPrefix == HttpsScheme \o <<":", "/", "/">> \o GitHubHost

DotGit == <<".", "g", "i", "t">>

TreeSegment == <<"t", "r", "e", "e">>

MainBranch == <<"m", "a", "i", "n">>

\* url::Url::parse on strings of the form scheme://host/path over letters,
\* '.', '/' (no query, fragment, port, user info or dot segments): the scheme
\* is what precedes "://", the host what follows up to the next '/', and
\* path_segments() splits the path after its leading '/'.
UrlParse(url) ==
    IF \A i \in 1..Len(url) : url[i] # ":" THEN Err("RelativeUrlWithoutBase")
    ELSE Only({
         LET scheme == SubSeq(url, 1, c - 1)
             rest == SubSeq(url, c + 1, Len(url))
         IN IF scheme = <<>> \/ ~StartsWith(rest, <<"/", "/">>)
            THEN Err("RelativeUrlWithoutBase")
            ELSE Only({
                 IF parts[1] = <<>> THEN Err("EmptyHost")
                 ELSE Ok([scheme |-> scheme, host |-> parts[1],
                          path_segments |->
                              IF Len(parts) = 1 THEN <<(<<>>)>>
                              ELSE Tail(parts)])
                 : parts \in {Split(SubSeq(rest, 3, Len(rest)), "/")}})
         : c \in {CHOOSE k \in 1..Len(url) :
                    url[k] = ":" /\ \A j \in 1..(k - 1) : url[j] # ":"}})

\* (mutant) the host of the URL is not looked at.
parse_github_segments_any_host(parsed) ==
    IF ~parsed.ok THEN Err("InvalidSource")
    ELSE IF parsed.val.scheme # HttpsScheme
    THEN Err("InvalidSource")
    ELSE LET segments == parsed.val.path_segments IN
         IF Len(segments) < 2 THEN Err("InvalidSource")
         ELSE LET owner == segments[1]
                  repository == TrimEndMatches(segments[2], DotGit)
                  remaining_path == SubSeq(segments, 3, Len(segments))
                  tree == Len(remaining_path) >= 2
                          /\ remaining_path[1] = TreeSegment
              IN Ok([owner |-> owner,
                     repo |-> repository,
                     branch |-> IF tree THEN remaining_path[2] ELSE MainBranch,
                     subpath |->
                         IF tree /\ Len(remaining_path) > 2
                         THEN Some(Join(SubSeq(remaining_path, 3,
                                               Len(remaining_path)), <<"/">>))
                         ELSE None])

\* GitHubSource::parse_github_url, from the answer of Url::parse on.
parse_github_segments(parsed) ==
    IF ~parsed.ok THEN Err("InvalidSource")
    ELSE IF parsed.val.scheme # HttpsScheme \/ parsed.val.host # GitHubHost
    THEN Err("InvalidSource")
    ELSE LET segments == parsed.val.path_segments IN
         IF Len(segments) < 2 THEN Err("InvalidSource")
         ELSE LET owner == segments[1]
                  repository == TrimEndMatches(segments[2], DotGit)
                  remaining_path == SubSeq(segments, 3, Len(segments))
                  tree == Len(remaining_path) >= 2
                          /\ remaining_path[1] = TreeSegment
              IN Ok([owner |-> owner,
                     repo |-> repository,
                     branch |-> IF tree THEN remaining_path[2] ELSE MainBranch,
                     subpath |->
                         IF tree /\ Len(remaining_path) > 2
                         THEN Some(Join(SubSeq(remaining_path, 3,
                                               Len(remaining_path)), <<"/">>))
                         ELSE None])

\* GitHubSource::parse_github_url
parse_github_url(url) ==
    Only({parse_github_segments(parsed) : parsed \in {UrlParse(url)}})

\* GitHubSource::new
GitHubSource_new(owner, repo, branch, subpath) ==
    [kind |-> "GitHub", owner |-> owner, repo |-> repo, branch |-> branch,
     subpath |-> subpath]

\* What the file system holds at a path when FileSystemSource::new looks.
FsPathStates == {"missing", "file", "unlistable", "dir"}

\* FileSystemSource::new; fs is the state of the path on disk.  The ignore
\* rules are loaded here and stay with the instance.
FileSystemSource_new(path, fs) ==
    IF fs = "missing" THEN Err("PathNotFound")
    ELSE IF fs = "file" THEN Err("InvalidSource")
    ELSE IF fs = "unlistable" THEN Err("PermissionDenied")
    ELSE Ok([kind |-> "FileSystem", base_path |-> path])

\* (mutant) a GitHub URL that does not parse is tried as a local path.
create_text_source_fallback(source, fs) ==
    IF StartsWith(source, GitHubPrefix) /\ parse_github_url(source).ok
    THEN Only({Ok(GitHubSource_new(r.val.owner, r.val.repo,
                                   r.val.branch, r.val.subpath))
               : r \in {parse_github_url(source)}})
    ELSE FileSystemSource_new(source, fs)

\* create_text_source
create_text_source(source, fs) ==
    IF StartsWith(source, GitHubPrefix)
    THEN Only({IF r.ok
               THEN Ok(GitHubSource_new(r.val.owner, r.val.repo,
                                        r.val.branch, r.val.subpath))
               ELSE r
               : r \in {parse_github_url(source)}})
    ELSE FileSystemSource_new(source, fs)

\* The SourceFile that FileSystemSource::collect_files pushes for rel_path.
FsSourceFile(ts, rel_path) ==
    [path |-> rel_path,
     source_type |-> [kind |-> "FileSystem", base_path |-> ts.base_path]]

\* The SourceFile that GitHubSource::get_file_index maps a kept entry to.
GitHubSourceFile(ts, path_str) ==
    [path |-> path_str,
     source_type |-> [kind |-> "GitHub", owner |-> ts.owner,
                      repo |-> ts.repo, branch |-> ts.branch]]

\* TextSource::get_file_index as the controller sees it: listing is what the
\* backend's traversal keeps (the paths, in its order), or the error it met.
get_file_index(ts, listing) ==
    IF ~listing.ok THEN listing
    ELSE Ok([i \in 1..Len(listing.val) |->
                IF ts.kind = "GitHub"
                THEN GitHubSourceFile(ts, listing.val[i])
                ELSE FsSourceFile(ts, listing.val[i])])

\* ------------------------------------------ input/mod.rs: FilterConfig
\* NON_TEXT_EXTENSIONS
NON_TEXT_EXTENSIONS ==
    {<<"e", "x", "e">>, <<"d", "l", "l">>, <<"s", "o">>,
     <<"d", "y", "l", "i", "b">>, <<"b", "i", "n">>, <<"a", "p", "p">>,
     <<"m", "s", "i">>, <<"s", "y", "s">>, <<"c", "o", "m">>, <<"o">>,
     <<"o", "b", "j">>, <<"c", "l", "a", "s", "s">>, <<"z", "i", "p">>,
     <<"r", "a", "r">>, <<"7", "z">>, <<"t", "a", "r">>, <<"g", "z">>,
     <<"b", "z", "2">>, <<"x", "z">>, <<"i", "s", "o">>, <<"d", "m", "g">>,
     <<"i", "m", "g">>, <<"t", "g", "z">>, <<"j", "p", "g">>,
     <<"j", "p", "e", "g">>, <<"p", "n", "g">>, <<"g", "i", "f">>,
     <<"b", "m", "p">>, <<"t", "i", "f", "f">>, <<"w", "e", "b", "p">>,
     <<"i", "c", "o">>, <<"s", "v", "g">>, <<"e", "p", "s">>,
     <<"r", "a", "w">>, <<"c", "r", "2">>, <<"n", "e", "f">>,
     <<"h", "e", "i", "c">>, <<"m", "p", "3">>, <<"w", "a", "v">>,
     <<"o", "g", "g">>, <<"f", "l", "a", "c">>, <<"m", "4", "a">>,
     <<"w", "m", "a">>, <<"a", "a", "c">>, <<"m", "i", "d">>,
     <<"m", "i", "d", "i">>, <<"a", "i", "f", "f">>, <<"m", "p", "4">>,
     <<"a", "v", "i">>, <<"m", "k", "v">>, <<"m", "o", "v">>,
     <<"w", "m", "v">>, <<"f", "l", "v">>, <<"w", "e", "b", "m">>,
     <<"m", "4", "v">>, <<"m", "p", "g">>, <<"m", "p", "e", "g">>,
     <<"3", "g", "p">>, <<"p", "d", "f">>, <<"d", "o", "c">>,
     <<"d", "o", "c", "x">>, <<"x", "l", "s">>, <<"x", "l", "s", "x">>,
     <<"p", "p", "t">>, <<"p", "p", "t", "x">>, <<"p", "a", "g", "e", "s">>,
     <<"n", "u", "m", "b", "e", "r", "s">>, <<"k", "e", "y">>,
     <<"i", "n", "d", "d">>, <<"p", "s", "d">>, <<"a", "i">>, <<"d", "b">>,
     <<"s", "q", "l", "i", "t", "e">>, <<"m", "d", "b">>,
     <<"a", "c", "c", "d", "b">>, <<"d", "b", "f">>, <<"d", "a", "t">>,
     <<"m", "d", "f">>, <<"s", "d", "f">>, <<"t", "t", "f">>,
     <<"o", "t", "f">>, <<"w", "o", "f", "f">>, <<"w", "o", "f", "f", "2">>,
     <<"e", "o", "t">>, <<"p", "y", "c">>, <<"p", "y", "o">>,
     <<"p", "y", "d">>, <<"j", "a", "r">>, <<"w", "a", "r">>,
     <<"d", "e", "b">>, <<"r", "p", "m">>, <<"l", "i", "b">>, <<"a">>,
     <<"p", "a", "k">>, <<"c", "a", "c", "h", "e">>, <<"i", "d", "x">>,
     <<"m", "o">>, <<"g", "m", "o">>, <<"p", "d", "b">>}

\* FilterConfig::default
FilterConfig_default ==
    [additional_text_extensions |-> {}, additional_binary_extensions |-> {}]

\* (mutant) the text override is consulted before the binary override.
is_text_extension_text_first(config, ext) ==
    IF ext \in config.additional_text_extensions THEN TRUE
    ELSE IF ext \in config.additional_binary_extensions THEN FALSE
    ELSE ext \notin NON_TEXT_EXTENSIONS

\* FilterConfig::is_text_extension
is_text_extension(config, ext) ==
    IF ext \in config.additional_binary_extensions THEN FALSE
    ELSE IF ext \in config.additional_text_extensions THEN TRUE
    ELSE ext \notin NON_TEXT_EXTENSIONS

\* ------------------------------------- input/file_system.rs: GitIgnoreRules
RECURSIVE TrimStartMatches(_, _)
\* str::trim_start_matches
TrimStartMatches(s, pat) ==
    IF pat # <<>> /\ StartsWith(s, pat)
    THEN TrimStartMatches(SubSeq(s, Len(pat) + 1, Len(s)), pat)
    ELSE s

\* str::contains(char)
Contains(s, c) == \E i \in 1..Len(s) : s[i] = c

\* str::find(char), for a string that contains the character
Find(s, c) == CHOOSE i \in 1..Len(s) : s[i] = c /\ \A j \in 1..(i - 1) : s[j] # c

Slash == <<"/">>

StarChar == <<"*">>

\* (mutant) the anchored branch without the "/" after the name.
match_anchored_no_boundary(rel_path, trimmed_pat) ==
    LET pat_no_slash == TrimStartMatches(trimmed_pat, Slash)
    IN \/ rel_path = pat_no_slash
       \/ StartsWith(rel_path, pat_no_slash)
       \/ /\ StartsWith(pat_no_slash, StarChar)
          /\ EndsWith(rel_path, TrimStartMatches(pat_no_slash, StarChar))

\* GitIgnoreRules::match_pattern, the branch of a pattern starting with '/'
match_anchored(rel_path, trimmed_pat) ==
    LET pat_no_slash == TrimStartMatches(trimmed_pat, Slash)
    IN \/ rel_path = pat_no_slash
       \/ StartsWith(rel_path, pat_no_slash \o Slash)
       \/ /\ StartsWith(pat_no_slash, StarChar)
          /\ EndsWith(rel_path, TrimStartMatches(pat_no_slash, StarChar))

\* GitIgnoreRules::match_pattern, the branch of a pattern containing '*':
\* the pattern as written is split at its first '*'.
match_wildcard(rel_path, pat) ==
    LET star_idx == Find(pat, "*")
        start == SubSeq(pat, 1, star_idx - 1)
        after_star == SubSeq(pat, star_idx + 1, Len(pat))
    IN StartsWith(rel_path, start) /\ EndsWith(rel_path, after_star)

\* GitIgnoreRules::match_pattern, the last branch
match_literal(rel_path, trimmed_pat) ==
    \/ rel_path = trimmed_pat
    \/ StartsWith(rel_path, trimmed_pat \o Slash)

\* GitIgnoreRules::match_pattern
match_pattern(rel_path, pat) ==
    LET trimmed_pat == TrimEndMatches(pat, Slash)
    IN IF StartsWith(pat, Slash) THEN match_anchored(rel_path, trimmed_pat)
       ELSE IF Contains(pat, "*") THEN match_wildcard(rel_path, pat)
       ELSE match_literal(rel_path, trimmed_pat)

\* GitIgnoreRules::is_ignored
is_ignored(patterns, rel_path) ==
    \E i \in 1..Len(patterns) : match_pattern(rel_path, patterns[i])

\* ------------------------------------------- TextSource::get_file_content
\* TextSourceError with its payload
TextSourceError(kind, arg) == [kind |-> kind, arg |-> arg]

InvalidSource == TextSourceError("InvalidSource", <<>>)

\* Display of TextSourceError (thiserror): the text of the variant followed
\* by its payload.  The variant itself is not part of the string.
TextSourceError_to_string(e) ==
    CASE e.kind = "InvalidSource" -> <<"Invalid source path or URL">>
      [] e.kind = "IoError" -> <<"IO error: ">> \o e.arg
      [] e.kind = "GitHubError" -> <<"GitHub API error: ">> \o e.arg
      [] e.kind = "NetworkError" -> <<"Network error: ">> \o e.arg
      [] e.kind = "PathNotFound" -> <<"Path not found: ">> \o e.arg
      [] e.kind = "PermissionDenied" -> <<"Permission denied: ">> \o e.arg
      [] e.kind = "RateLimitExceeded" -> <<"GitHub rate limit exceeded">>
      [] e.kind = "RepoNotFound" -> <<"GitHub repository not found">>
      [] e.kind = "NotTextFile" ->
            <<"File is not valid UTF-8 text: ">> \o e.arg

\* Path::join
PathJoin(base, rel) ==
    IF StartsWith(rel, Slash) THEN rel
    ELSE IF base = <<>> \/ EndsWith(base, Slash) THEN base \o rel
    ELSE base \o Slash \o rel

\* what the disk answers for one path: "missing", "unreadable" (read fails),
\* "binary" (bytes that are not UTF-8) or "text" with the file's text
DiskAnswer(st, text) == [medium |-> "disk", st |-> st, text |-> text]

\* the std::io::Error of a failed read, as Display prints it
OsErrorText == <<"os error">>

\* a result together with the disk and network operations performed
Fetched(res, trace) == [res |-> res, trace |-> trace]

\* (mutant) the file system backend reads base_path/path whatever the origin
\* of the file is.
FileSystemSource_get_file_content_any_origin(ts, source_file, ans) ==
    LET full_path == PathJoin(ts.base_path, source_file.path)
        exists == [op |-> "exists", target |-> full_path]
        read == [op |-> "read", target |-> full_path]
    IN IF ans.st = "missing"
       THEN Fetched(Err(TextSourceError("PathNotFound", full_path)),
                    <<exists>>)
       ELSE IF ans.st = "unreadable"
       THEN Fetched(Err(TextSourceError("IoError", OsErrorText)),
                    <<exists, read>>)
       ELSE IF ans.st = "binary"
       THEN Fetched(Err(TextSourceError("NotTextFile", full_path)),
                    <<exists, read>>)
       ELSE Fetched(Ok(ans.text), <<exists, read>>)

\* FileSystemSource::get_file_content
FileSystemSource_get_file_content(ts, source_file, ans) ==
    IF source_file.source_type.kind = "FileSystem"
    THEN LET full_path == PathJoin(source_file.source_type.base_path,
                                   source_file.path)
             exists == [op |-> "exists", target |-> full_path]
             read == [op |-> "read", target |-> full_path]
         IN IF ans.st = "missing"
            THEN Fetched(Err(TextSourceError("PathNotFound", full_path)),
                         <<exists>>)
            ELSE IF ans.st = "unreadable"
            THEN Fetched(Err(TextSourceError("IoError", OsErrorText)),
                         <<exists, read>>)
            ELSE IF ans.st = "binary"
            THEN Fetched(Err(TextSourceError("NotTextFile", full_path)),
                         <<exists, read>>)
            ELSE Fetched(Ok(ans.text), <<exists, read>>)
    ELSE Fetched(Err(InvalidSource), <<>>)

\* what the network answers for one GET: "send_failed", "body_failed", or
\* "response" with a status and a body that is UTF-8 text or not
HttpAnswer(st, status, utf8, text) ==
    [medium |-> "http", st |-> st, status |-> status, utf8 |-> utf8,
     text |-> text]

RawHost == <<"h", "t", "t", "p", "s", ":", "/", "/", "r", "a", "w", ".", "g", "i", "t", "h", "u", "b", "u", "s", "e", "r", "c", "o", "n", "t", "e", "n", "t", ".", "c", "o", "m">>

\* the reqwest::Error of a failed request, as Display prints it
RequestErrorText == <<"error sending request">>

\* StatusCode::to_string
StatusText(status) ==
    IF status = 500 THEN <<"500 Internal Server Error">>
    ELSE IF status = 404 THEN <<"404 Not Found">>
    ELSE IF status = 403 THEN <<"403 Forbidden">>
    ELSE <<"200 OK">>

\* StatusCode::is_success
is_success(status) == 200 <= status /\ status < 300

\* (mutant) a 403 is treated like any other failure status.
GitHubSource_get_file_content_no_403(ts, source_file, ans) ==
    IF source_file.source_type.kind = "GitHub"
    THEN LET origin == source_file.source_type
             file_path == IF ts.subpath.some
                          THEN ts.subpath.val \o Slash \o source_file.path
                          ELSE source_file.path
             raw_url == RawHost \o Slash \o origin.owner \o Slash
                        \o origin.repo \o Slash \o origin.branch \o Slash
                        \o file_path
             get == [op |-> "get", target |-> raw_url]
         IN IF ans.st \in {"send_failed", "body_failed"}
            THEN Fetched(Err(TextSourceError("NetworkError",
                                             RequestErrorText)), <<get>>)
            ELSE IF is_success(ans.status)
            THEN IF ans.utf8 THEN Fetched(Ok(ans.text), <<get>>)
                 ELSE Fetched(Err(TextSourceError("NotTextFile", file_path)),
                              <<get>>)
            ELSE IF ans.status = 404
            THEN Fetched(Err(TextSourceError("PathNotFound",
                                             source_file.path)), <<get>>)
            ELSE Fetched(Err(TextSourceError("GitHubError",
                                             StatusText(ans.status))),
                         <<get>>)
    ELSE Fetched(Err(InvalidSource), <<>>)

\* GitHubSource::get_file_content
GitHubSource_get_file_content(ts, source_file, ans) ==
    IF source_file.source_type.kind = "GitHub"
    THEN LET origin == source_file.source_type
             file_path == IF ts.subpath.some
                          THEN ts.subpath.val \o Slash \o source_file.path
                          ELSE source_file.path
             raw_url == RawHost \o Slash \o origin.owner \o Slash
                        \o origin.repo \o Slash \o origin.branch \o Slash
                        \o file_path
             get == [op |-> "get", target |-> raw_url]
         IN IF ans.st \in {"send_failed", "body_failed"}
            THEN Fetched(Err(TextSourceError("NetworkError",
                                             RequestErrorText)), <<get>>)
            ELSE IF is_success(ans.status)
            THEN IF ans.utf8 THEN Fetched(Ok(ans.text), <<get>>)
                 ELSE Fetched(Err(TextSourceError("NotTextFile", file_path)),
                              <<get>>)
            ELSE IF ans.status = 404
            THEN Fetched(Err(TextSourceError("PathNotFound",
                                             source_file.path)), <<get>>)
            ELSE IF ans.status = 403
            THEN Fetched(Err(TextSourceError("RateLimitExceeded", <<>>)),
                         <<get>>)
            ELSE Fetched(Err(TextSourceError("GitHubError",
                                             StatusText(ans.status))),
                         <<get>>)
    ELSE Fetched(Err(InvalidSource), <<>>)

\* TextSource::get_file_content, dispatched on the backend
get_file_content(ts, source_file, ans) ==
    IF ts.kind = "GitHub"
    THEN GitHubSource_get_file_content(ts, source_file, ans)
    ELSE FileSystemSource_get_file_content(ts, source_file, ans)

\* --------------------------------- input/file_system.rs: FileSystemSource
UpperCase ==
    <<"A", "B", "C", "D", "E", "F", "G", "H", "I", "J", "K", "L", "M", "N",
      "O", "P", "Q", "R", "S", "T", "U", "V", "W", "X", "Y", "Z">>

LowerCase ==
    <<"a", "b", "c", "d", "e", "f", "g", "h", "i", "j", "k", "l", "m", "n",
      "o", "p", "q", "r", "s", "t", "u", "v", "w", "x", "y", "z">>

\* str::to_lowercase
to_lowercase(s) ==
    [i \in 1..Len(s) |->
        IF \E k \in 1..Len(UpperCase) : UpperCase[k] = s[i]
        THEN LowerCase[CHOOSE k \in 1..Len(UpperCase) : UpperCase[k] = s[i]]
        ELSE s[i]]

\* the position of the last occurrence of a character, 0 when there is none
LastIndexOf(s, c) ==
    IF Contains(s, c)
    THEN CHOOSE i \in 1..Len(s) :
            s[i] = c /\ \A j \in (i + 1)..Len(s) : s[j] # c
    ELSE 0

\* Path::file_name: the last component
file_name(path_str) ==
    SubSeq(path_str, LastIndexOf(path_str, "/") + 1, Len(path_str))

\* Path::extension: what follows the last '.' of the file name, unless the
\* name has no '.' or only the one it starts with
PathExtension(path_str) ==
    LET name == file_name(path_str)
        dot == LastIndexOf(name, ".")
    IN IF dot <= 1 THEN None
       ELSE Some(SubSeq(name, dot + 1, Len(name)))

\* get_extension
get_extension(path_str) ==
    IF PathExtension(path_str).some
    THEN Some(to_lowercase(PathExtension(path_str).val))
    ELSE None

\* (mutant) only the leading '.' hides an entry.
is_hidden_name_dot_only(fname_str) == StartsWith(fname_str, <<".">>)

\* collect_files: the two tests on the entry's file name
is_hidden_name(fname_str) ==
    StartsWith(fname_str, <<".">>) \/ EndsWith(fname_str, <<"~">>)

\* (mutant) the extension is never tested.
has_non_text_extension_never(filter, rel_path) == FALSE

\* collect_files: the test on the entry's extension
has_non_text_extension(filter, rel_path) ==
    /\ get_extension(rel_path).some
    /\ ~is_text_extension(filter, get_extension(rel_path).val)

\* collect_files: the `continue`s that precede is_file / is_dir
entry_skipped(patterns, filter, rel_path) ==
    \/ is_hidden_name(file_name(rel_path))
    \/ is_ignored(patterns, rel_path)
    \/ has_non_text_extension(filter, rel_path)

\* An entry of the directory tree: its path relative to the base directory
\* and what it is - a regular "file", a "dir", a "locked" directory (one
\* that read_dir cannot open) or something "other" (neither is_file nor
\* is_dir).
DirEntry(rel_path, kind) == [path |-> rel_path, kind |-> kind]

\* Path::is_dir
is_dir(entry) == entry.kind \in {"dir", "locked"}

\* fs::read_dir of the directory with the relative path dir (<<>> is the
\* base directory itself): its entries
read_dir(tree, dir) ==
    {e \in tree :
        e.path = (IF dir = <<>> THEN <<>> ELSE dir \o Slash)
                 \o file_name(e.path)}

\* the frame of one collect_files call: the entries its loop has not seen
WalkFrame(tree, dir) == [dir |-> dir, entries |-> read_dir(tree, dir)]

\* the io::Error of read_dir, converted by `?`
ReadDirError == TextSourceError("IoError", OsErrorText)

\* (mutant) a directory that cannot be read is passed over.
collect_files_enter_skip_unreadable(w, tree, entry) ==
    IF entry.kind = "locked" THEN w
    ELSE [w EXCEPT !.stack = Append(@, WalkFrame(tree, entry.path))]

\* collect_files: the recursive call for a directory; read_dir(dir)? ends
\* the whole traversal when it fails
collect_files_enter(w, tree, entry) ==
    IF entry.kind = "locked"
    THEN [w EXCEPT !.pc = "failed", !.error = ReadDirError]
    ELSE [w EXCEPT !.stack = Append(@, WalkFrame(tree, entry.path))]

\* collect_files: the body of the loop for one entry of the innermost frame
collect_files_entry(w, ts, tree, patterns, filter, entry) ==
    LET top == Len(w.stack)
        seen == [w EXCEPT !.stack[top].entries = @ \ {entry}]
    IN IF entry_skipped(patterns, filter, entry.path) THEN seen
       ELSE IF entry.kind = "file"
       THEN [seen EXCEPT !.files = Append(@, FsSourceFile(ts, entry.path))]
       ELSE IF is_dir(entry) THEN collect_files_enter(seen, tree, entry)
       ELSE seen

\* ------------------------------------- input/github.rs: get_file_index
\* what the tree endpoint answers: "send_failed", "body_failed" (the body
\* cannot be read), or "response" with a status and a body; the body is the
\* JSON of a tree listing or some other text
TreeAnswer(st, status, json, tree, text) ==
    [st |-> st, status |-> status, json |-> json, tree |-> tree,
     text |-> text]

\* an entry of the tree listing
GitHubContent(path, type) == [path |-> path, type |-> type]

\* the serde_json::Error of a body that is no tree listing, as Display prints it
JsonErrorText == <<"expected value at line 1 column 1">>

\* (mutant) a 404 is treated like any other failure status.
handle_github_response_no_404(ans) ==
    IF ans.st = "body_failed"
    THEN Err(TextSourceError("NetworkError", RequestErrorText))
    ELSE IF is_success(ans.status)
    THEN IF ans.json THEN Ok(ans.tree)
         ELSE Err(TextSourceError("GitHubError", JsonErrorText))
    ELSE IF ans.status = 403
    THEN Err(TextSourceError("RateLimitExceeded", <<>>))
    ELSE Err(TextSourceError("GitHubError", ans.text))

\* GitHubSource::handle_github_response
handle_github_response(ans) ==
    IF ans.st = "body_failed"
    THEN Err(TextSourceError("NetworkError", RequestErrorText))
    ELSE IF is_success(ans.status)
    THEN IF ans.json THEN Ok(ans.tree)
         ELSE Err(TextSourceError("GitHubError", JsonErrorText))
    ELSE IF ans.status = 403
    THEN Err(TextSourceError("RateLimitExceeded", <<>>))
    ELSE IF ans.status = 404
    THEN Err(TextSourceError("RepoNotFound", <<>>))
    ELSE Err(TextSourceError("GitHubError", ans.text))

\* str::strip_prefix
strip_prefix(s, prefix) ==
    IF StartsWith(s, prefix) THEN Some(SubSeq(s, Len(prefix) + 1, Len(s)))
    ELSE None

\* get_file_index: the path of an item as the second and third closure
\* compute it
path_relative(ts, item) ==
    IF ts.subpath.some
    THEN IF strip_prefix(item.path, ts.subpath.val).some
         THEN TrimStartMatches(strip_prefix(item.path, ts.subpath.val).val,
                               Slash)
         ELSE item.path
    ELSE item.path

\* get_file_index: the three filters
item_kept(ts, filter, item) ==
    /\ item.type = "blob"
    /\ ts.subpath.some => StartsWith(item.path, ts.subpath.val)
    /\ get_extension(path_relative(ts, item)).some
          => is_text_extension(filter,
                               get_extension(path_relative(ts, item)).val)

\* GitHubSource::get_file_index
GitHubSource_get_file_index(ts, filter, ans) ==
    IF ans.st = "send_failed"
    THEN Err(TextSourceError("NetworkError", RequestErrorText))
    ELSE IF ~handle_github_response(ans).ok THEN handle_github_response(ans)
    ELSE LET filtered_contents ==
                 SelectSeq(handle_github_response(ans).val,
                           LAMBDA item : item_kept(ts, filter, item))
         IN Ok([i \in 1..Len(filtered_contents) |->
                   GitHubSourceFile(ts,
                                    path_relative(ts, filtered_contents[i]))])

\* ------------------------------------------------- output/mod.rs: merging
\* App::reload_file_content: the backend's error becomes its Display string
reload_file_content(app, sf, ans) ==
    IF app.text_source.some
    THEN LET fetched == get_file_content(app.text_source.val, sf, ans)
         IN Fetched(IF fetched.res.ok THEN fetched.res
                    ELSE Err(TextSourceError_to_string(fetched.res.err)),
                    fetched.trace)
    ELSE Fetched(Err(<<"No text source available">>), <<>>)

\* (mutant) the block without the blank line after its END line.
merged_block_no_blank_line(path, content) ==
    <<"--- START FILE: ">> \o path \o <<" ---", "\n">>
    \o content
    \o <<"\n", "--- END FILE: ">> \o path \o <<" ---", "\n">>

\* write_merged: the three push_str of one file
merged_block(path, content) ==
    <<"--- START FILE: ">> \o path \o <<" ---", "\n">>
    \o content
    \o <<"\n", "--- END FILE: ">> \o path \o <<" ---", "\n", "\n">>

\* the output-file panel's value, which merge_immediate passes on
OutputFile == <<"o", "u", "t">>

\* file::write_file: "ok", or the error of File::create or of write_all
write_file(outcome) ==
    IF outcome = "ok" THEN Ok(<<>>)
    ELSE IF outcome = "create_failed"
    THEN Err(<<"Error creating file: ">> \o OsErrorText)
    ELSE Err(<<"Error writing file: ">> \o OsErrorText)

\* clipboard::copy_clipboard: "ok", or the error of the clipboard
copy_clipboard(outcome) ==
    IF outcome = "ok" THEN Ok(<<>>) ELSE Err(<<"clipboard error">>)

\* ------------------------------------------------------------- key events
\* A crossterm KeyEvent: its code, the character of a Char code, and whether
\* CONTROL is held.
Key(code) == [code |-> code, c |-> "", ctrl |-> FALSE]

KeyChar(c) == [code |-> "Char", c |-> c, ctrl |-> FALSE]

KeyCtrl(c) == [code |-> "Char", c |-> c, ctrl |-> TRUE]

\* --------------------------------------------- ui/source_path.rs
\* SourcePathPanel::new
SourcePathPanel_new(value) == [value |-> value, cursor_pos |-> Len(value)]

\* String::insert_str(idx, s) / String::insert(idx, c)
InsertStr(value, idx, s) ==
    SubSeq(value, 1, idx) \o s \o SubSeq(value, idx + 1, Len(value))

\* String::remove(idx)
RemoveAt(value, idx) ==
    SubSeq(value, 1, idx) \o SubSeq(value, idx + 2, Len(value))

\* SourcePathPanel::handle_input; clip is what get_clipboard_content()
\* returns at that moment.
SourcePathPanel_handle_input(panel, key_event, clip) ==
    IF key_event.code = "Char" /\ key_event.c = "c" /\ key_event.ctrl
    THEN panel
    ELSE IF key_event.code = "Char" /\ key_event.c = "v" /\ key_event.ctrl
    THEN IF clip.ok
         THEN [value |-> InsertStr(panel.value, panel.cursor_pos, clip.val),
               cursor_pos |-> panel.cursor_pos + Len(clip.val)]
         ELSE panel
    ELSE IF key_event.code = "Char" /\ ~key_event.ctrl
    THEN [value |-> InsertStr(panel.value, panel.cursor_pos, <<key_event.c>>),
          cursor_pos |-> panel.cursor_pos + 1]
    ELSE IF key_event.code = "Backspace"
    THEN IF panel.cursor_pos > 0
         THEN [value |-> RemoveAt(panel.value, panel.cursor_pos - 1),
               cursor_pos |-> panel.cursor_pos - 1]
         ELSE panel
    ELSE IF key_event.code = "Left"
    THEN IF panel.cursor_pos > 0
         THEN [panel EXCEPT !.cursor_pos = @ - 1]
         ELSE panel
    ELSE IF key_event.code = "Right"
    THEN IF panel.cursor_pos < Len(panel.value)
         THEN [panel EXCEPT !.cursor_pos = @ + 1]
         ELSE panel
    ELSE panel

\* ----- the same panel with its value in bytes.  A Rust String is UTF-8 and
\* cursor_pos is a byte index; above every character is one byte long, which
\* is what the strings of the controller's sessions are.  Here a value is a
\* sequence of bytes, and a character can take more than one.

\* char::encode_utf8: an ASCII character is its own byte
encode_utf8(c) ==
    IF c = "e-acute" THEN <<"c3", "a9">>
    ELSE IF c = "euro" THEN <<"e2", "82", "ac">>
    ELSE <<c>>

\* the bytes 0x80..0xBF, which continue a character
ContinuationBytes == {"a9", "82", "ac"}

\* str::is_char_boundary
is_char_boundary(value, idx) ==
    \/ idx = 0
    \/ idx = Len(value)
    \/ idx < Len(value) /\ value[idx + 1] \notin ContinuationBytes

\* a panic unwinds out of the handler: the panel is gone
Panicked == [pc |-> "panicked"]

\* String::insert_str(idx, s) and String::insert(idx, c): assert the
\* boundary, then insert the bytes
String_insert_str(value, idx, bytes) ==
    IF is_char_boundary(value, idx) /\ idx <= Len(value)
    THEN Ok(InsertStr(value, idx, bytes))
    ELSE Err("panic")

\* String::remove(idx): the character that starts at idx is taken out,
\* all its bytes; idx off a boundary or at the end panics
String_remove(value, idx) ==
    IF idx < Len(value) /\ is_char_boundary(value, idx)
    THEN LET next == CHOOSE j \in (idx + 1)..Len(value) :
                        /\ is_char_boundary(value, j)
                        /\ \A k \in (idx + 1)..(j - 1) :
                              ~is_char_boundary(value, k)
         IN Ok(SubSeq(value, 1, idx) \o SubSeq(value, next + 1, Len(value)))
    ELSE Err("panic")

\* SourcePathPanel::handle_input, the arm KeyCode::Char(c) if !ctrl
SourcePathPanel_insert_char(panel, c) ==
    LET inserted == String_insert_str(panel.value, panel.cursor_pos,
                                      encode_utf8(c))
    IN IF inserted.ok
       THEN [panel EXCEPT !.value = inserted.val, !.cursor_pos = @ + 1]
       ELSE Panicked

\* SourcePathPanel::handle_input on bytes; clip is what
\* get_clipboard_content() returns at that moment, in bytes.
SourcePathPanel_handle_input_bytes(panel, key_event, clip) ==
    IF key_event.code = "Char" /\ key_event.c = "c" /\ key_event.ctrl
    THEN panel
    ELSE IF key_event.code = "Char" /\ key_event.c = "v" /\ key_event.ctrl
    THEN IF clip.ok
         THEN LET inserted == String_insert_str(panel.value, panel.cursor_pos,
                                                clip.val)
              IN IF inserted.ok
                 THEN [panel EXCEPT !.value = inserted.val,
                                    !.cursor_pos = @ + Len(clip.val)]
                 ELSE Panicked
         ELSE panel
    ELSE IF key_event.code = "Char" /\ ~key_event.ctrl
    THEN SourcePathPanel_insert_char(panel, key_event.c)
    ELSE IF key_event.code = "Backspace"
    THEN IF panel.cursor_pos > 0
         THEN LET removed == String_remove(panel.value, panel.cursor_pos - 1)
              IN IF removed.ok
                 THEN [panel EXCEPT !.value = removed.val,
                                    !.cursor_pos = @ - 1]
                 ELSE Panicked
         ELSE panel
    ELSE IF key_event.code = "Left"
    THEN IF panel.cursor_pos > 0
         THEN [panel EXCEPT !.cursor_pos = @ - 1]
         ELSE panel
    ELSE IF key_event.code = "Right"
    THEN IF panel.cursor_pos < Len(panel.value)
         THEN [panel EXCEPT !.cursor_pos = @ + 1]
         ELSE panel
    ELSE panel

\* SourcePathPanel::draw: the value is sliced at cursor_pos, which panics
\* off a character boundary
SourcePathPanel_draw(panel) ==
    IF panel.cursor_pos <= Len(panel.value)
       /\ ~is_char_boundary(panel.value, panel.cursor_pos)
    THEN Panicked
    ELSE panel

\* ------------------------------------------------- ui/filters.rs
Star == <<"*">>

\* f.path.split('.').last(): what follows the last '.', the whole path when
\* it has none.
LastDotPart(path) == LET parts == Split(path, ".") IN parts[Len(parts)]

\* The visible_count of the panels' handle_input.
VisibleCount == 10

\* FiltersPanel::new and SourceFilesPanel::new
ListPanel_new == [items |-> <<>>, cursor |-> 0, offset |-> 0]

\* (mutant) the new items are listed but not selected.
FiltersPanel_init_values_unselected(files, selected_exts, selected_files) ==
    LET exts == {LastDotPart(files[i].path) : i \in 1..Len(files)}
    IN [panel |-> [items |-> <<Star>> \o SortedSeq(exts), cursor |-> 0,
                   offset |-> 0],
        selected_exts |-> selected_exts,
        selected_files |->
            selected_files \cup {files[i].path : i \in 1..Len(files)}]

\* FiltersPanel::init_values: the panel, selected_exts and selected_files
\* after the call.
FiltersPanel_init_values(files, selected_exts, selected_files) ==
    LET exts == {LastDotPart(files[i].path) : i \in 1..Len(files)}
        new_items == <<Star>> \o SortedSeq(exts)
    IN [panel |-> [items |-> new_items, cursor |-> 0, offset |-> 0],
        selected_exts |-> selected_exts \cup Range(new_items),
        selected_files |->
            selected_files \cup {files[i].path : i \in 1..Len(files)}]

\* (mutant) Down moves the cursor and leaves the offset alone.
ListPanel_handle_input_no_scroll(panel, key_event) ==
    IF key_event.code = "Up"
    THEN IF panel.cursor > 0
         THEN LET cursor == panel.cursor - 1
              IN [panel EXCEPT !.cursor = cursor,
                               !.offset = IF cursor < @ THEN cursor ELSE @]
         ELSE panel
    ELSE IF key_event.code = "Down"
    THEN IF panel.cursor + 1 < Len(panel.items)
         THEN [panel EXCEPT !.cursor = @ + 1]
         ELSE panel
    ELSE panel

\* FiltersPanel::handle_input and SourceFilesPanel::handle_input (the two
\* bodies are the same).
ListPanel_handle_input(panel, key_event) ==
    IF key_event.code = "Up"
    THEN IF panel.cursor > 0
         THEN LET cursor == panel.cursor - 1
              IN [panel EXCEPT !.cursor = cursor,
                               !.offset = IF cursor < @ THEN cursor ELSE @]
         ELSE panel
    ELSE IF key_event.code = "Down"
    THEN IF panel.cursor + 1 < Len(panel.items)
         THEN LET cursor == panel.cursor + 1
              IN [panel EXCEPT !.cursor = cursor,
                               !.offset = IF cursor >= @ + VisibleCount
                                          THEN cursor + 1 - VisibleCount
                                          ELSE @]
         ELSE panel
    ELSE panel

\* FiltersPanel::toggle_selected: selected_exts and selected_files after it.
FiltersPanel_toggle_selected(panel, selected_exts, selected_files, all_files) ==
    IF panel.items = <<>>
    THEN [selected_exts |-> selected_exts, selected_files |-> selected_files]
    ELSE
    LET selected_item == panel.items[panel.cursor + 1]
        is_already_selected == selected_item \in selected_exts
        paths == {all_files[i].path : i \in 1..Len(all_files)}
        of_ext == {q \in paths : LastDotPart(q) = selected_item}
    IN IF selected_item = Star
       THEN IF is_already_selected
            THEN [selected_exts |->
                      (selected_exts \ {Star}) \ Range(panel.items),
                  selected_files |-> {}]
            ELSE [selected_exts |->
                      selected_exts \cup {Star} \cup Range(panel.items),
                  selected_files |-> paths]
       ELSE IF is_already_selected
            THEN [selected_exts |-> (selected_exts \ {selected_item}) \ {Star},
                  selected_files |-> selected_files \ of_ext]
            ELSE LET exts1 == selected_exts \cup {selected_item}
                     all_included == Range(panel.items) \subseteq exts1
                 IN [selected_exts |->
                         IF all_included THEN exts1 \cup {Star} ELSE exts1,
                     selected_files |-> selected_files \cup of_ext]

\* ---------------------------------------------- ui/source_files.rs
\* Vec::sort of the paths of an index (duplicates kept side by side).
RECURSIVE SortPaths(_)
SortPaths(paths) ==
    Only({IF ps = <<>> THEN <<>>
          ELSE Only({Only({[i \in 1..(Len(ps) - Len(rest)) |-> m]
                               \o SortPaths(rest) :
                           rest \in {SelectSeq(ps, LAMBDA q : q # m)}}) :
                     m \in {CHOOSE x \in Range(ps) :
                               \A y \in Range(ps) \ {x} : StrLess(x, y)}})
          : ps \in {paths}})

\* SourceFilesPanel::init_values: the panel and selected_files after it.
SourceFilesPanel_init_values(files, selected_files) ==
    LET paths == [i \in 1..Len(files) |-> files[i].path]
    IN [panel |-> [items |-> SortPaths(paths), cursor |-> 0, offset |-> 0],
        selected_files |-> selected_files \cup Range(paths)]

\* (mutant) deselecting a file leaves its extension selected.
SourceFilesPanel_toggle_selected_keeps_ext(panel, selected_exts, selected_files, all_files) ==
    IF panel.items = <<>>
    THEN [selected_exts |-> selected_exts, selected_files |-> selected_files]
    ELSE
    LET current_file == panel.items[panel.cursor + 1]
        paths == {all_files[i].path : i \in 1..Len(all_files)}
        ext == LastDotPart(current_file)
    IN IF current_file \in selected_files
       THEN [selected_exts |-> selected_exts \ {Star},
             selected_files |-> selected_files \ {current_file}]
       ELSE LET files1 == selected_files \cup {current_file}
                all_same_ext ==
                    \A q \in paths : LastDotPart(q) = ext => q \in files1
            IN [selected_exts |->
                    IF all_same_ext THEN selected_exts \cup {ext}
                    ELSE selected_exts,
                selected_files |-> files1]

\* SourceFilesPanel::toggle_selected: selected_exts and selected_files after.
SourceFilesPanel_toggle_selected(panel, selected_exts, selected_files, all_files) ==
    IF panel.items = <<>>
    THEN [selected_exts |-> selected_exts, selected_files |-> selected_files]
    ELSE
    LET current_file == panel.items[panel.cursor + 1]
        paths == {all_files[i].path : i \in 1..Len(all_files)}
        ext == LastDotPart(current_file)
    IN IF current_file \in selected_files
       THEN [selected_exts |->
                 (IF current_file \in paths
                  THEN selected_exts \ {ext}
                  ELSE selected_exts) \ {Star},
             selected_files |-> selected_files \ {current_file}]
       ELSE LET files1 == selected_files \cup {current_file}
                all_same_ext ==
                    \A q \in paths : LastDotPart(q) = ext => q \in files1
            IN [selected_exts |->
                    IF all_same_ext THEN selected_exts \cup {ext}
                    ELSE selected_exts,
                selected_files |-> files1]

\* --------------------------------------------------- ui/output.rs
\* OutputPanel.items
OutputItems == <<"FileAndClipboard", "File", "Clipboard">>

\* OutputPanel::new
OutputPanel_new == [selected |-> 0, destination |-> "FileAndClipboard"]

\* OutputPanel::handle_input
OutputPanel_handle_input(panel, key_event) ==
    LET selected ==
            IF key_event.code = "Left"
            THEN IF panel.selected > 0 THEN panel.selected - 1
                 ELSE panel.selected
            ELSE IF key_event.code = "Right"
            THEN IF panel.selected + 1 < Len(OutputItems)
                 THEN panel.selected + 1
                 ELSE panel.selected
            ELSE panel.selected
    IN [selected |-> selected, destination |-> OutputItems[selected + 1]]

\* ------------------------------------------------------ ui/mod.rs
\* FocusedPanel::next_panel
next_panel(panel, app) ==
    CASE panel = "SourcePath" -> "Filters"
      [] panel = "Filters" -> "SourceFiles"
      [] panel = "SourceFiles" -> "Output"
      [] panel = "Output" ->
            IF app.output_panel.destination = "Clipboard"
            THEN "SourcePath" ELSE "OutputFile"
      [] panel = "OutputFile" -> "SourcePath"

\* FocusedPanel::prev_panel
prev_panel(panel, app) ==
    CASE panel = "SourcePath" -> "OutputFile"
      [] panel = "Filters" -> "SourcePath"
      [] panel = "SourceFiles" -> "Filters"
      [] panel = "Output" -> "SourceFiles"
      [] panel = "OutputFile" -> "Output"

\* App::new.  The output-file panel (ui/output_file.rs) holds only the name
\* of the file a merge writes and is left out of the record.
App_new(default_path) ==
    [source_path_panel |-> SourcePathPanel_new(default_path),
     filters_panel |-> ListPanel_new,
     source_files_panel |-> ListPanel_new,
     output_panel |-> OutputPanel_new,
     focused_panel |-> "SourcePath",
     loaded_files |-> <<>>,
     selected_extensions |-> {},
     selected_files |-> {},
     processing |-> FALSE,
     text_source |-> None,
     exit_requested |-> FALSE,
     reload_files_needed |-> FALSE,
     merge_needed |-> FALSE,
     prev_source_path |-> default_path]

\* App::set_cursor_to_end
set_cursor_to_end(app) ==
    IF app.focused_panel = "SourcePath"
    THEN [app EXCEPT !.source_path_panel.cursor_pos =
                         Len(app.source_path_panel.value)]
    ELSE app

\* (mutant) Enter on the output panel moves on to the output-file panel
\* whatever the destination.
handle_enter_moves_on(app) ==
    IF app.focused_panel = "Output"
    THEN set_cursor_to_end([app EXCEPT !.focused_panel = "OutputFile"])
    ELSE IF app.focused_panel = "OutputFile"
    THEN IF ~app.processing
         THEN [app EXCEPT !.merge_needed = TRUE]
         ELSE app
    ELSE set_cursor_to_end([app EXCEPT !.focused_panel = next_panel(@, app)])

\* App::handle_enter
handle_enter(app) ==
    IF app.focused_panel = "Output"
    THEN IF app.output_panel.destination = "Clipboard"
         THEN IF ~app.processing
              THEN [app EXCEPT !.merge_needed = TRUE]
              ELSE app
         ELSE set_cursor_to_end(
                  [app EXCEPT !.focused_panel = next_panel(@, app)])
    ELSE IF app.focused_panel = "OutputFile"
    THEN IF ~app.processing
         THEN [app EXCEPT !.merge_needed = TRUE]
         ELSE app
    ELSE set_cursor_to_end([app EXCEPT !.focused_panel = next_panel(@, app)])

\* (mutant) F1 requests a reload whether or not the controller is busy.
update_F1_unguarded(app) == [app EXCEPT !.reload_files_needed = TRUE]

\* (mutant) F1 runs the reload inside the handler: the backend and the index
\* are dropped at once.
update_F1_reloads(app) ==
    IF ~app.processing
    THEN [app EXCEPT !.text_source = None, !.loaded_files = <<>>]
    ELSE app

\* App::update, the F1 arm of its match
update_F1(app) ==
    IF ~app.processing THEN [app EXCEPT !.reload_files_needed = TRUE] ELSE app

\* (mutant) F2 requests a merge whether or not the controller is busy.
update_F2_unguarded(app) == [app EXCEPT !.merge_needed = TRUE]

\* App::update, the F2 arm of its match
update_F2(app) ==
    IF ~app.processing THEN [app EXCEPT !.merge_needed = TRUE] ELSE app

\* App::update, the match on key_event.code
update_match(app, key_event, clip) ==
    CASE key_event.code = "F10" -> [app EXCEPT !.exit_requested = TRUE]
      [] key_event.code = "Esc" ->
            IF app.focused_panel = "SourcePath"
            THEN [app EXCEPT !.exit_requested = TRUE]
            ELSE set_cursor_to_end(
                     [app EXCEPT !.focused_panel = prev_panel(@, app)])
      [] key_event.code = "F1" -> update_F1(app)
      [] key_event.code = "F2" -> update_F2(app)
      [] key_event.code = "F3" ->
            IF app.focused_panel = "SourcePath"
            THEN [app EXCEPT !.source_path_panel =
                                 [value |-> <<>>, cursor_pos |-> 0]]
            ELSE app
      [] key_event.code = "Enter" -> handle_enter(app)
      [] key_event.code = "Char" /\ key_event.c = " " ->
            IF app.focused_panel = "Filters"
            THEN LET r == FiltersPanel_toggle_selected(
                              app.filters_panel, app.selected_extensions,
                              app.selected_files, app.loaded_files)
                 IN [app EXCEPT !.selected_extensions = r.selected_exts,
                                !.selected_files = r.selected_files]
            ELSE IF app.focused_panel = "SourceFiles"
            THEN LET r == SourceFilesPanel_toggle_selected(
                              app.source_files_panel, app.selected_extensions,
                              app.selected_files, app.loaded_files)
                 IN [app EXCEPT !.selected_extensions = r.selected_exts,
                                !.selected_files = r.selected_files]
            ELSE app
      [] OTHER ->
            CASE app.focused_panel = "SourcePath" ->
                    [app EXCEPT !.source_path_panel =
                         SourcePathPanel_handle_input(@, key_event, clip)]
              [] app.focused_panel = "Filters" ->
                    [app EXCEPT !.filters_panel =
                         ListPanel_handle_input(@, key_event)]
              [] app.focused_panel = "SourceFiles" ->
                    [app EXCEPT !.source_files_panel =
                         ListPanel_handle_input(@, key_event)]
              [] app.focused_panel = "Output" ->
                    [app EXCEPT !.output_panel =
                         OutputPanel_handle_input(@, key_event)]
              [] app.focused_panel = "OutputFile" -> app

\* (mutant) leaving the panel with a changed value requests the reload but
\* does not record the value.
update_left_source_path_no_record(app, old_focused_panel) ==
    IF old_focused_panel = "SourcePath" /\ app.focused_panel # "SourcePath"
       /\ app.source_path_panel.value # app.prev_source_path
    THEN [app EXCEPT !.reload_files_needed = TRUE]
    ELSE app

\* App::update, what follows the match: leaving the source-path panel with a
\* changed value requests a reload.
update_left_source_path(app, old_focused_panel) ==
    IF old_focused_panel = "SourcePath" /\ app.focused_panel # "SourcePath"
       /\ app.source_path_panel.value # app.prev_source_path
    THEN [app EXCEPT !.reload_files_needed = TRUE,
                     !.prev_source_path = app.source_path_panel.value]
    ELSE app

\* App::update
update(app, key_event, clip) ==
    update_left_source_path(update_match(app, key_event, clip),
                            app.focused_panel)

\* (mutant) the reload leaves its intent set.
reload_begin_keeps_intent(app) == app

\* (mutant) the reload clears the merge intent along with its own.
reload_begin_clears_merge(app) ==
    [app EXCEPT !.reload_files_needed = FALSE, !.merge_needed = FALSE]

\* App::reload_files_immediate up to its first await: the intent is cleared
\* and the path is read.
reload_begin(app) == [app EXCEPT !.reload_files_needed = FALSE]

\* (mutant) the reload loads the value recorded when the panel was left.
reload_path_recorded(app) == app.prev_source_path

\* The local `path` of reload_files_immediate.
reload_path(app) == app.source_path_panel.value

\* App::reload_files_immediate, the two init_values calls that end it.
reload_init_values(app) ==
    LET f == FiltersPanel_init_values(app.loaded_files,
                                      app.selected_extensions,
                                      app.selected_files)
        g == SourceFilesPanel_init_values(app.loaded_files, f.selected_files)
    IN [app EXCEPT !.filters_panel = f.panel,
                   !.selected_extensions = f.selected_exts,
                   !.source_files_panel = g.panel,
                   !.selected_files = g.selected_files]

\* (mutant) a failed construction drops the backend but keeps the index.
reload_create_failed_keeps_index(app) ==
    reload_init_values([app EXCEPT !.text_source = None])

\* App::reload_files_immediate when create_text_source has answered Err.
reload_create_failed(app) ==
    reload_init_values([app EXCEPT !.text_source = None,
                                   !.loaded_files = <<>>])

\* App::reload_files_immediate when create_text_source has answered Ok(ts):
\* the backend is stored and get_file_index is awaited.
reload_created(app, ts) == [app EXCEPT !.text_source = Some(ts)]

\* (mutant) a failed indexing keeps the previous index.
reload_indexed_keeps_on_err(app, index_res) ==
    reload_init_values(
        [app EXCEPT !.loaded_files =
                        IF index_res.ok THEN index_res.val ELSE @])

\* App::reload_files_immediate when get_file_index has answered.
reload_indexed(app, index_res) ==
    reload_init_values(
        [app EXCEPT !.loaded_files =
                        IF index_res.ok THEN index_res.val ELSE <<>>])

\* App::merge_immediate up to the await of write_merged: the intent is
\* cleared.
merge_begin(app) == [app EXCEPT !.merge_needed = FALSE]

\* The files_map of merge_immediate: path -> SourceFile for the files of the
\* index whose path is selected (a later file of the same path replaces an
\* earlier one).
merge_files_map(app) ==
    LET idx == {i \in 1..Len(app.loaded_files) :
                    app.loaded_files[i].path \in app.selected_files}
    IN [q \in {app.loaded_files[i].path : i \in idx} |->
           app.loaded_files[CHOOSE i \in idx :
               /\ app.loaded_files[i].path = q
               /\ \A j \in idx : app.loaded_files[j].path = q => j <= i]]

\* ------------------------------------------------------------- main.rs
\* The directory browser: current_path is kept as its depth below the root,
\* entries as the kinds ("dir" or "file") of the paths listed, and
\* list_state as the selected index.  last names the method called last.
saturating_sub(a, b) == IF a > b THEN a - b ELSE 0

\* App::new; listing is what refresh_entries finds
BrowserApp_new(depth, listing) ==
    [pc |-> "live", depth |-> depth, entries |-> listing, selected |-> 0,
     last |-> "new"]

\* (mutant) next goes on past the last entry.
BrowserApp_next_no_wrap(b) ==
    [b EXCEPT !.selected = @ + 1, !.last = "next"]

\* App::next
BrowserApp_next(b) ==
    [b EXCEPT !.selected = IF @ >= saturating_sub(Len(b.entries), 1)
                           THEN 0 ELSE @ + 1,
              !.last = "next"]

\* App::previous
BrowserApp_previous(b) ==
    [b EXCEPT !.selected = IF @ = 0
                           THEN saturating_sub(Len(b.entries), 1)
                           ELSE @ - 1,
              !.last = "previous"]

\* App::enter_directory; listing is what refresh_entries finds there
BrowserApp_enter_directory(b, listing) ==
    IF b.selected < Len(b.entries) /\ b.entries[b.selected + 1] = "dir"
    THEN [b EXCEPT !.depth = @ + 1, !.entries = listing, !.selected = 0,
                   !.last = "enter_directory"]
    ELSE [b EXCEPT !.last = "refused"]

\* App::go_up; listing is what refresh_entries finds in the parent
BrowserApp_go_up(b, listing) ==
    IF b.depth > 0
    THEN [b EXCEPT !.depth = @ - 1, !.entries = listing, !.selected = 0,
                   !.last = "go_up"]
    ELSE [b EXCEPT !.last = "refused"]

\* ------------------------------------------------------------ environment
\* The paths a backend's traversal can keep.
AllFilePaths == << <<"a", ".", "r">>, <<"b">>, <<"c", ".", "r">>,
                   <<"d", ".", "m">> >>

FilePaths == {AllFilePaths[i] : i \in 1..MaxFiles}

\* The sequences without repetition of at most MaxFiles of these paths.
RECURSIVE SeqsOver(_, _)
SeqsOver(S, n) ==
    IF n = 0 THEN {<<>>}
    ELSE LET shorter == SeqsOver(S, n - 1)
         IN shorter \cup {Append(q, x) : q \in shorter, x \in S}

NoRepeat(q) == \A i, j \in 1..Len(q) : q[i] = q[j] => i = j

Listings ==
    {Ok(q) : q \in {r \in SeqsOver(FilePaths, MaxFiles) : NoRepeat(r)}}
    \cup {Err("IoError"), Err("NetworkError")}

\* The source strings a session starts with: a local directory and a
\* repository URL.
LocalDir == <<"d">>

RepoUrl == GitHubPrefix \o <<"/", "o", "/", "r">>

DefaultPaths == {LocalDir, RepoUrl}

\* The key events of a session, and what the clipboard answers to a paste.
Keys ==
    {Key("F10"), Key("Esc"), Key("F1"), Key("F2"), Key("F3"), Key("Enter"),
     Key("Down"), Key("Right"), KeyChar(" "), KeyChar("x")}

Clips == {Err("clipboard")}

\* ---------------------------------------------------------- state machine
VARIABLES
    app,          \* the App
    reload_task,  \* where reload_files_immediate stands, and its local path
    merge_task,   \* where merge_immediate stands, and its files_map and dest
    nkeys,        \* key events handled so far
    mon,          \* history the properties below are stated on
    wm,           \* where write_merged stands inside a merge, and its locals
    io,           \* what a merge has done to the backend, the file, the clipboard
    call,         \* a call of one function on its own: the function, its inputs
    ret,          \* what that call returned
    walk,         \* where collect_files stands in a directory tree
    field,        \* the source-path field on its own, its value in bytes
    browser       \* the directory browser of main.rs

vars == <<app, reload_task, merge_task, nkeys, mon, wm, io, call, ret, walk,
          field, browser>>

\* The variables the controller's own steps leave alone.
aux == <<wm, io, call, ret, walk, field, browser>>

NoFrame == [pc |-> "idle"]

NoCall == [fn |-> "none"]

NoRet == [done |-> FALSE]

NoWalk == [pc |-> "idle"]

NoField == [pc |-> "idle"]

NoBrowser == [pc |-> "idle"]

IdleTask == [pc |-> "idle"]

\* No intent pending and not busy.
Idle(a) == ~a.processing /\ ~a.reload_files_needed /\ ~a.merge_needed

IndexPaths(a) == {a.loaded_files[i].path : i \in 1..Len(a.loaded_files)}

\* ----- history
\* sf_phase, sf_runs: "first" after F1 pressed on an idle controller, "dup"
\*   once F1 is pressed again while that reload is in flight, "off" after
\*   any other request; sf_runs counts the reloads started since "first".
\* req_value: the source-path value when the pending reload was requested.
\* retargeted: the reload in flight started with another value than that.
\* waited: the last reload started while a merge was pending too.
\* last_reload: how the last finished reload ended.
\* partial: the selection was a strict subset of the index when it ended.
MonInit ==
    [sf_phase |-> "off", sf_runs |-> 0, req_value |-> <<>>,
     retargeted |-> FALSE, waited |-> FALSE, last_reload |-> "none",
     partial |-> FALSE]

MonKey(m, a, key_event, a2) ==
    LET requested ==
            a2.reload_files_needed # a.reload_files_needed
            \/ a2.merge_needed # a.merge_needed
        fresh == key_event.code = "F1" /\ Idle(a) /\ reload_task.pc = "idle"
                 /\ merge_task.pc = "idle"
        phase ==
            IF fresh THEN "first"
            ELSE IF key_event.code = "F1" /\ m.sf_phase # "off"
            THEN IF reload_task.pc # "idle" THEN "dup"
                 ELSE IF a.reload_files_needed THEN m.sf_phase
                 ELSE "off"
            ELSE IF requested \/ key_event.code = "F1" THEN "off"
            ELSE m.sf_phase
    IN [m EXCEPT
          !.sf_phase = phase,
          !.sf_runs = IF fresh \/ phase = "off" THEN 0 ELSE @,
          !.req_value = IF ~a.reload_files_needed /\ a2.reload_files_needed
                        THEN a2.source_path_panel.value ELSE @]

MonReloadStart(m, a) ==
    [m EXCEPT !.sf_runs = IF m.sf_phase = "off" THEN 0 ELSE @ + 1,
              !.req_value = <<>>,
              !.retargeted = (m.req_value # a.source_path_panel.value),
              !.waited = a.merge_needed]

MonReloadDone(m, a, result) ==
    [m EXCEPT !.retargeted = FALSE,
              !.last_reload = result,
              !.partial = (a.selected_files \cap IndexPaths(a)
                           # IndexPaths(a))]

Init ==
    /\ \E default_path \in DefaultPaths : app = App_new(default_path)
    /\ reload_task = IdleTask
    /\ merge_task = IdleTask
    /\ nkeys = 0
    /\ mon = MonInit
    /\ wm = NoFrame
    /\ io = <<>>
    /\ call = NoCall
    /\ ret = NoRet
    /\ walk = NoWalk
    /\ field = NoField
    /\ browser = NoBrowser

\* The driving loop polls a key event, one of keys, and hands it to
\* App::update.
KeyEventOf(keys) ==
    /\ ~app.exit_requested
    /\ nkeys < MaxKeys
    /\ \E key_event \in keys, clip \in Clips :
          /\ app' = update(app, key_event, clip)
          /\ mon' = MonKey(mon, app, key_event, app')
    /\ nkeys' = nkeys + 1
    /\ UNCHANGED <<reload_task, merge_task>>
    /\ UNCHANGED aux

KeyEvent == KeyEventOf(Keys)

\* The driving loop's test for running a reload in this tick.
tick_runs_reload(a) == a.reload_files_needed /\ ~a.processing

\* (mutant) the loop runs a merge whenever one is requested.
tick_runs_merge_ungated(a) == a.merge_needed

\* The driving loop's test for running a merge in this tick.
tick_runs_merge(a) ==
    ~tick_runs_reload(a) /\ a.merge_needed /\ ~a.processing

\* A tick that starts a reload: busy is set and reload_files_immediate runs
\* to its first await.
TickReload ==
    /\ ~app.exit_requested
    /\ tick_runs_reload(app)
    /\ app' = reload_begin([app EXCEPT !.processing = TRUE])
    /\ reload_task' = [pc |-> "create", path |-> reload_path(app)]
    /\ mon' = MonReloadStart(mon, app)
    /\ UNCHANGED <<merge_task, nkeys>>
    /\ UNCHANGED aux

\* create_text_source answers.
ReloadCreate ==
    /\ reload_task.pc = "create"
    /\ \E fs \in FsPathStates :
          \E ts_result \in {create_text_source(reload_task.path, fs)} :
              IF ts_result.ok
              THEN /\ app' = reload_created(app, ts_result.val)
                   /\ reload_task' = [reload_task EXCEPT !.pc = "index"]
                   /\ mon' = mon
              ELSE /\ app' = [reload_create_failed(app)
                                 EXCEPT !.processing = FALSE]
                   /\ reload_task' = IdleTask
                   /\ mon' = MonReloadDone(mon, app, "create_err")
    /\ UNCHANGED <<merge_task, nkeys>>
    /\ UNCHANGED aux

\* get_file_index answers, one of listings; the reload ends and the loop
\* clears busy.
ReloadIndexOf(listings) ==
    /\ reload_task.pc = "index"
    /\ \E listing \in listings :
          \E index_res \in {get_file_index(app.text_source.val, listing)} :
              /\ app' = [reload_indexed(app, index_res)
                         EXCEPT !.processing = FALSE]
              /\ mon' = MonReloadDone(mon, app,
                                      IF listing.ok THEN "ok" ELSE "index_err")
    /\ reload_task' = IdleTask
    /\ UNCHANGED <<merge_task, nkeys>>
    /\ UNCHANGED aux

ReloadIndex == ReloadIndexOf(Listings)

\* A tick that starts a merge: busy is set and merge_immediate runs to the
\* await of write_merged.
TickMerge ==
    /\ ~app.exit_requested
    /\ tick_runs_merge(app)
    /\ app' = merge_begin([app EXCEPT !.processing = TRUE])
    /\ merge_task' = [pc |-> "write", files_map |-> merge_files_map(app),
                      dest |-> app.output_panel.destination]
    /\ UNCHANGED <<reload_task, nkeys, mon>>
    /\ UNCHANGED aux

\* write_merged answers; the merge ends and the loop clears busy.
MergeDone ==
    /\ merge_task.pc = "write"
    /\ app' = [app EXCEPT !.processing = FALSE]
    /\ merge_task' = IdleTask
    /\ UNCHANGED <<reload_task, nkeys, mon>>
    /\ UNCHANGED aux

Next ==
    \/ KeyEvent
    \/ TickReload
    \/ ReloadCreate
    \/ ReloadIndex
    \/ TickMerge
    \/ MergeDone

Spec == Init /\ [][Next]_vars

\* The same machine under fairness: the loop keeps ticking, and every
\* awaited call answers.  Progress does not depend on which files a listing
\* holds nor on the keys that only move a cursor, so the environment is
\* reduced to the keys that make, drop or confirm requests and to one
\* listing of each outcome.
FairKeys ==
    {Key("F10"), Key("F1"), Key("F2"), Key("Enter"), KeyChar("x")}

FairListings == {Ok(<<AllFilePaths[1]>>), Ok(<<>>), Err("NetworkError")}

FairKeyEvent == KeyEventOf(FairKeys)

FairReloadIndex == ReloadIndexOf(FairListings)

FairNext ==
    \/ FairKeyEvent
    \/ TickReload
    \/ ReloadCreate
    \/ FairReloadIndex
    \/ TickMerge
    \/ MergeDone

FairSpec ==
    /\ Init /\ [][FairNext]_vars
    /\ WF_vars(TickReload)
    /\ WF_vars(TickMerge)
    /\ WF_vars(ReloadCreate)
    /\ WF_vars(FairReloadIndex)
    /\ WF_vars(MergeDone)

\* ------------------------------------------------ one merge, step by step
\* MergeDone above is write_merged and the rest of merge_immediate in one
\* step.  Here the same code is taken statement by statement: wm is the frame
\* of write_merged and io records every operation on the backend, the output
\* file and the clipboard.  wm.fetches is history: the paths fetched, in the
\* order of the loop, each with what the backend answered.

\* the backends a merge runs on, with the path that creates each
MergeSources ==
    {[path |-> LocalDir, ts |-> [kind |-> "FileSystem",
                                 base_path |-> LocalDir]],
     [path |-> RepoUrl, ts |-> GitHubSource_new(<<"o">>, <<"r">>,
                                                MainBranch, None)]}

\* the listings of a successful reload
MergeListings == {q \in SeqsOver(FilePaths, MaxFiles) : NoRepeat(q)}

\* what the backend's medium answers during a merge
MergeAnswers(ts) ==
    IF ts.kind = "GitHub"
    THEN {HttpAnswer("response", 200, TRUE, <<"A">>),
          HttpAnswer("response", 200, FALSE, <<>>),
          HttpAnswer("response", 404, FALSE, <<>>),
          HttpAnswer("response", 403, FALSE, <<>>),
          HttpAnswer("response", 500, FALSE, <<>>),
          HttpAnswer("send_failed", 0, FALSE, <<>>)}
    ELSE {DiskAnswer("text", <<"A">>),
          DiskAnswer("binary", <<>>),
          DiskAnswer("missing", <<>>),
          DiskAnswer("unreadable", <<>>)}

\* the App after a successful reload, with the user's file selection and
\* output destination, and a merge requested
MergeReady(src, listing, selected, d) ==
    [reload_indexed(reload_created(App_new(src.path), src.ts),
                    get_file_index(src.ts, Ok(listing)))
        EXCEPT !.selected_files = selected,
               !.output_panel = [selected |-> d - 1,
                                 destination |-> OutputItems[d]],
               !.merge_needed = TRUE]

MergeInit ==
    /\ \E src \in MergeSources, listing \in MergeListings,
          selected \in SUBSET FilePaths, d \in 1..Len(OutputItems) :
            app = MergeReady(src, listing, selected, d)
    /\ reload_task = IdleTask
    /\ merge_task = IdleTask
    /\ nkeys = 0
    /\ mon = MonInit
    /\ wm = NoFrame
    /\ io = <<>>
    /\ call = NoCall
    /\ ret = NoRet
    /\ walk = NoWalk
    /\ field = NoField
    /\ browser = NoBrowser

\* write_merged is entered: merged is the empty string
WriteMergedBegin ==
    /\ merge_task.pc = "write"
    /\ wm = NoFrame
    /\ wm' = [pc |-> "loop", remaining |-> DOMAIN merge_task.files_map,
              merged |-> <<>>, fetches |-> <<>>, result |-> Err(<<>>)]
    /\ UNCHANGED <<app, reload_task, merge_task, nkeys, mon, io, call, ret,
                 walk, field, browser>>

\* one iteration of `for (path, sf) in files_map`: the HashMap hands out its
\* entries in an order of its own
WriteMergedFetch ==
    /\ wm.pc = "loop"
    /\ \E path \in wm.remaining, ans \in MergeAnswers(app.text_source.val) :
         \E fetched \in {reload_file_content(
                             app, merge_task.files_map[path], ans)} :
            /\ wm' = [wm EXCEPT
                        !.remaining = @ \ {path},
                        !.merged = IF fetched.res.ok
                                   THEN @ \o merged_block(path,
                                                          fetched.res.val)
                                   ELSE @,
                        !.fetches = Append(@,
                            [path |-> path,
                             res |-> get_file_content(
                                         app.text_source.val,
                                         merge_task.files_map[path],
                                         ans).res])]
            /\ io' = io \o fetched.trace
    /\ UNCHANGED <<app, reload_task, merge_task, nkeys, mon, call, ret,
                 walk, field, browser>>

FileOutcomes == {"ok", "create_failed", "write_failed"}

\* `match destination`: the file is written for FileAndClipboard and File
WriteMergedFile ==
    /\ wm.pc = "loop"
    /\ wm.remaining = {}
    /\ IF merge_task.dest \in {"FileAndClipboard", "File"}
       THEN \E outcome \in FileOutcomes :
               /\ io' = Append(io, [op |-> "write_file",
                                    target |-> OutputFile,
                                    content |-> wm.merged,
                                    st |-> outcome])
               /\ wm' = IF write_file(outcome).ok
                        THEN [wm EXCEPT !.pc = "clipboard"]
                        ELSE [wm EXCEPT !.pc = "returned",
                                        !.result = write_file(outcome)]
       ELSE /\ io' = io
            /\ wm' = [wm EXCEPT !.pc = "clipboard"]
    /\ UNCHANGED <<app, reload_task, merge_task, nkeys, mon, call, ret,
                 walk, field, browser>>

ClipboardOutcomes == {"ok", "failed"}

\* `if matches!(destination, FileAndClipboard | Clipboard)`, then Ok(merged)
WriteMergedClipboard ==
    /\ wm.pc = "clipboard"
    /\ IF merge_task.dest \in {"FileAndClipboard", "Clipboard"}
       THEN \E outcome \in ClipboardOutcomes :
               /\ io' = Append(io, [op |-> "copy_clipboard",
                                    target |-> <<>>,
                                    content |-> wm.merged,
                                    st |-> outcome])
               /\ wm' = [wm EXCEPT
                            !.pc = "returned",
                            !.result = IF copy_clipboard(outcome).ok
                                       THEN Ok(wm.merged)
                                       ELSE copy_clipboard(outcome)]
       ELSE /\ io' = io
            /\ wm' = [wm EXCEPT !.pc = "returned", !.result = Ok(wm.merged)]
    /\ UNCHANGED <<app, reload_task, merge_task, nkeys, mon, call, ret,
                 walk, field, browser>>

\* merge_immediate after write_merged: with FileAndClipboard an Ok result is
\* copied to the clipboard, the outcome of that ignored; the merge ends and
\* the loop clears busy.
MergeFinish ==
    /\ wm.pc = "returned"
    /\ IF wm.result.ok /\ merge_task.dest = "FileAndClipboard"
       THEN \E outcome \in ClipboardOutcomes :
               io' = Append(io, [op |-> "copy_clipboard",
                                 target |-> <<>>,
                                 content |-> wm.result.val,
                                 st |-> outcome])
       ELSE io' = io
    /\ wm' = [wm EXCEPT !.pc = "done"]
    /\ app' = [app EXCEPT !.processing = FALSE]
    /\ merge_task' = IdleTask
    /\ UNCHANGED <<reload_task, nkeys, mon, call, ret, walk, field,
                 browser>>

MergeNext ==
    \/ TickMerge
    \/ WriteMergedBegin
    \/ WriteMergedFetch
    \/ WriteMergedFile
    \/ WriteMergedClipboard
    \/ MergeFinish

MergeSpec == MergeInit /\ [][MergeNext]_vars

\* ------------------------------------------------ one function at a time
\* A call of one function on inputs of its own: the controller stands still,
\* call holds the inputs and ret receives the result.
CallInit(calls) ==
    /\ app = App_new(LocalDir)
    /\ reload_task = IdleTask
    /\ merge_task = IdleTask
    /\ nkeys = 0
    /\ mon = MonInit
    /\ wm = NoFrame
    /\ io = <<>>
    /\ call \in calls
    /\ ret = NoRet
    /\ walk = NoWalk
    /\ field = NoField
    /\ browser = NoBrowser

Returns(v) ==
    /\ ~ret.done
    /\ ret' = [done |-> TRUE, val |-> v]
    /\ UNCHANGED <<app, reload_task, merge_task, nkeys, mon, wm, io, call,
                 walk, field, browser>>

\* ----- FilterConfig::is_text_extension on every extension of the table and
\* some outside it, under every config over ConfigExts.
TextExts == {<<"r", "s">>, <<"t", "x", "t">>, <<"m", "d">>}

ConfigExts == {<<"e", "x", "e">>, <<"p", "n", "g">>, <<"r", "s">>}

FilterConfigs ==
    {[additional_text_extensions |-> t, additional_binary_extensions |-> b] :
        t \in SUBSET ConfigExts, b \in SUBSET ConfigExts}

IsTextCalls ==
    {[fn |-> "is_text_extension", config |-> c, ext |-> e] :
        c \in FilterConfigs, e \in NON_TEXT_EXTENSIONS \cup TextExts}

CallIsTextExtension ==
    /\ call.fn = "is_text_extension"
    /\ Returns(is_text_extension(call.config, call.ext))

IsTextNext == CallIsTextExtension

IsTextSpec == CallInit(IsTextCalls) /\ [][IsTextNext]_vars

\* ----- GitIgnoreRules::match_pattern on the relative paths of up to MaxDepth
\* components and the .gitignore lines of up to MaxPatLen characters.
MaxDepth == 3

MaxPatLen == 3

\* file and directory names ('*' is a legal name on a POSIX file system)
PathNames == {<<"a">>, <<"b">>, <<"a", "b">>, <<"*">>}

\* what strip_prefix(base_path) leaves of an entry below the base directory
RelPaths == {Join(q, Slash) : q \in SeqsOver(PathNames, MaxDepth) \ {<<>>}}

PatChars == {"a", "b", "/", "*"}

\* the lines GitIgnoreRules::load_from keeps: trimmed, not empty, no comment
Patterns == SeqsOver(PatChars, MaxPatLen) \ {<<>>}

MatchCalls ==
    {[fn |-> "match_pattern", rel_path |-> r, pat |-> p] :
        r \in RelPaths, p \in Patterns}

CallMatchPattern ==
    /\ call.fn = "match_pattern"
    /\ Returns(match_pattern(call.rel_path, call.pat))

IgnoreNext == CallMatchPattern

IgnoreSpec == CallInit(MatchCalls) /\ [][IgnoreNext]_vars

\* ----- TextSource::get_file_content of both backends on files of every
\* origin, under every answer of the disk or the network.
Contents == {<<"A">>, <<"B", "\n">>}

DiskAnswers ==
    {DiskAnswer(st, <<>>) : st \in {"missing", "unreadable", "binary"}}
    \cup {DiskAnswer("text", c) : c \in Contents}

HttpAnswers ==
    {HttpAnswer("send_failed", 0, FALSE, <<>>)}
    \cup {HttpAnswer("body_failed", s, FALSE, <<>>) : s \in {200, 404}}
    \cup {HttpAnswer("response", s, FALSE, <<>>) : s \in {200, 404, 403, 500}}
    \cup {HttpAnswer("response", 200, TRUE, c) : c \in Contents}

OtherDir == <<"e">>

SubDir == <<"s">>

FsBackends ==
    {[kind |-> "FileSystem", base_path |-> b] : b \in {LocalDir, OtherDir}}

GitHubBackends ==
    {GitHubSource_new(<<"o">>, <<"r">>, MainBranch, sp) :
        sp \in {None, Some(SubDir)}}

\* files of both origins
SourceFiles ==
    {FsSourceFile(ts, q) : ts \in FsBackends, q \in FilePaths}
    \cup {GitHubSourceFile(ts, q) : ts \in GitHubBackends, q \in FilePaths}

ContentCalls ==
    {[fn |-> "get_file_content", ts |-> ts, source_file |-> sf, ans |-> a] :
        ts \in FsBackends, sf \in SourceFiles, a \in DiskAnswers}
    \cup
    {[fn |-> "get_file_content", ts |-> ts, source_file |-> sf, ans |-> a] :
        ts \in GitHubBackends, sf \in SourceFiles, a \in HttpAnswers}

ContentReturns(fetched) ==
    /\ ~ret.done
    /\ ret' = [done |-> TRUE, val |-> fetched.res]
    /\ io' = io \o fetched.trace
    /\ UNCHANGED <<app, reload_task, merge_task, nkeys, mon, wm, call,
                 walk, field, browser>>

CallFsGetFileContent ==
    /\ call.fn = "get_file_content"
    /\ call.ts.kind = "FileSystem"
    /\ ContentReturns(FileSystemSource_get_file_content(
                          call.ts, call.source_file, call.ans))

CallGitHubGetFileContent ==
    /\ call.fn = "get_file_content"
    /\ call.ts.kind = "GitHub"
    /\ ContentReturns(GitHubSource_get_file_content(
                          call.ts, call.source_file, call.ans))

ContentNext == CallFsGetFileContent \/ CallGitHubGetFileContent

ContentSpec == CallInit(ContentCalls) /\ [][ContentNext]_vars

\* ----- FileSystemSource::get_file_index on the directory trees of up to
\* MaxEntries entries, step by step: read_dir hands out the entries of a
\* directory in an order of its own.
MaxEntries == 3

EntryNames == {<<".", "h">>, <<"b", "~">>, <<"a", ".", "O">>, <<"b">>}

EntryKinds == {"file", "dir", "locked", "other"}

\* the free places of a tree: below the base directory and below its "dir"s
FreePaths(tree) ==
    ({n : n \in EntryNames}
     \cup {e.path \o Slash \o n :
             e \in {d \in tree : d.kind = "dir"}, n \in EntryNames})
    \ {e.path : e \in tree}

RECURSIVE TreesOf(_)
TreesOf(n) ==
    IF n = 0 THEN {{}}
    ELSE LET smaller == TreesOf(n - 1)
         IN smaller
            \cup UNION {{tree \cup {DirEntry(q, k)} :
                            q \in FreePaths(tree), k \in EntryKinds} :
                        tree \in smaller}

\* the patterns loaded from the base directory's .gitignore
IgnoreRulesets == {<<>>, << <<"b">> >>}

IndexFilters ==
    {FilterConfig_default,
     [additional_text_extensions |-> {<<"o">>},
      additional_binary_extensions |-> {}]}

\* the calls on the trees of up to n entries
FsIndexCalls(n) ==
    {[fn |-> "get_file_index",
      ts |-> [kind |-> "FileSystem", base_path |-> LocalDir],
      gitignore_rules |-> rules, filter |-> f, root |-> r, tree |-> t] :
        rules \in IgnoreRulesets, f \in IndexFilters,
        r \in {"dir", "locked"}, t \in TreesOf(n)}

\* get_file_index: collect_files is called on the base directory
FsGetFileIndex ==
    /\ call.fn = "get_file_index"
    /\ walk = NoWalk
    /\ field = NoField
    /\ browser = NoBrowser
    /\ walk' = collect_files_enter(
                   [pc |-> "walking", stack |-> <<>>, files |-> <<>>,
                    error |-> InvalidSource],
                   call.tree, DirEntry(<<>>, call.root))
    /\ UNCHANGED <<app, reload_task, merge_task, nkeys, mon, wm, io, call,
                   ret, field, browser>>

\* collect_files: one turn of `for entry in entries` in the innermost call
CollectFilesEntry ==
    /\ walk.pc = "walking"
    /\ walk.stack # <<>>
    /\ \E entry \in walk.stack[Len(walk.stack)].entries :
          walk' = collect_files_entry(walk, call.ts, call.tree,
                                      call.gitignore_rules, call.filter,
                                      entry)
    /\ UNCHANGED <<app, reload_task, merge_task, nkeys, mon, wm, io, call,
                   ret, field, browser>>

\* collect_files: the loop of the innermost call is over, Ok(())
CollectFilesReturn ==
    /\ walk.pc = "walking"
    /\ walk.stack # <<>>
    /\ walk.stack[Len(walk.stack)].entries = {}
    /\ walk' = [walk EXCEPT !.stack = SubSeq(@, 1, Len(@) - 1)]
    /\ UNCHANGED <<app, reload_task, merge_task, nkeys, mon, wm, io, call,
                   ret, field, browser>>

\* get_file_index returns: the error that `?` carried up, or Ok(files)
FsGetFileIndexReturn ==
    /\ \/ walk.pc = "failed"
       \/ walk.pc = "walking" /\ walk.stack = <<>>
    /\ ret' = [done |-> TRUE,
               val |-> IF walk.pc = "failed" THEN Err(walk.error)
                       ELSE Ok(walk.files)]
    /\ walk' = [walk EXCEPT !.pc = "done"]
    /\ UNCHANGED <<app, reload_task, merge_task, nkeys, mon, wm, io, call,
                   field, browser>>

FsIndexNext ==
    \/ FsGetFileIndex
    \/ CollectFilesEntry
    \/ CollectFilesReturn
    \/ FsGetFileIndexReturn

FsIndexSpec == CallInit(FsIndexCalls(MaxEntries)) /\ [][FsIndexNext]_vars

\* ----- GitHubSource::parse_github_url and create_text_source on URLs put
\* together from a scheme, a host and path segments, and on other strings.
MaxRest == 4

UrlSchemes == {HttpsScheme, <<"h", "t", "t", "p">>}

UrlHosts == {GitHubHost, GitHubHost \o <<".", "x">>, <<"x", ".", "c">>}

OwnerSegment == <<"o">>

RepoSegments == {<<"r">>, <<"r">> \o DotGit, <<"r">> \o DotGit \o DotGit}

\* what may follow the repository: "tree", names, and the empty segment
\* that a doubled or trailing '/' makes
RestSegments == {TreeSegment, <<"d", "e", "v">>, <<>>}

\* the path of a URL as its segments: none at all, "/", "/o", and
\* "/o/<repo>" followed by up to MaxRest segments
UrlSegments ==
    {<<>>, <<(<<>>)>>, <<OwnerSegment>>}
    \cup {<<OwnerSegment, repo>> \o rest :
            repo \in RepoSegments, rest \in SeqsOver(RestSegments, MaxRest)}

\* the string of a URL
MakeUrl(scheme, host, segs) ==
    scheme \o <<":", "/", "/">> \o host
    \o (IF segs = <<>> THEN <<>> ELSE Slash \o Join(segs, Slash))

UrlInputs ==
    {[text |-> MakeUrl(sc, h, segs), is_url |-> TRUE, scheme |-> sc,
      host |-> h, segs |-> segs] :
        sc \in UrlSchemes, h \in UrlHosts, segs \in UrlSegments}

\* strings that are no URL: a local directory, and a URL without its scheme
PlainInputs ==
    {[text |-> t, is_url |-> FALSE, scheme |-> <<>>, host |-> <<>>,
      segs |-> <<>>] :
        t \in {LocalDir, GitHubHost \o <<"/", "o", "/", "r">>}}

UrlCalls ==
    {[fn |-> "parse_github_url", input |-> u, fs |-> "missing"] :
        u \in UrlInputs \cup PlainInputs}
    \cup {[fn |-> "create_text_source", input |-> u, fs |-> fs] :
            u \in UrlInputs \cup PlainInputs, fs \in FsPathStates}

CallParseGithubUrl ==
    /\ call.fn = "parse_github_url"
    /\ Returns(parse_github_url(call.input.text))

CallCreateTextSource ==
    /\ call.fn = "create_text_source"
    /\ Returns(create_text_source(call.input.text, call.fs))

UrlNext == CallParseGithubUrl \/ CallCreateTextSource

UrlSpec == CallInit(UrlCalls) /\ [][UrlNext]_vars

\* ----- GitHubSource::get_file_index under every answer of the tree
\* endpoint: failures, error statuses, and listings of up to MaxFiles entries.
ItemPaths ==
    {<<"s", "/", "b">>, <<"s", "/", "a", ".", "O">>, <<"s", ".", "O">>,
     <<"s", "b">>, <<"b">>, <<"s">>}

ItemTypes == {"blob", "tree"}

TreeListings ==
    {q \in SeqsOver({GitHubContent(p, t) : p \in ItemPaths, t \in ItemTypes},
                    MaxFiles) :
        \A i, j \in 1..Len(q) : q[i].path = q[j].path => i = j}

TreeAnswers ==
    {TreeAnswer("send_failed", 0, FALSE, <<>>, <<>>)}
    \cup {TreeAnswer("body_failed", s, FALSE, <<>>, <<>>) : s \in {200, 404}}
    \cup {TreeAnswer("response", s, FALSE, <<>>, <<"message">>) :
            s \in {200, 403, 404, 500}}
    \cup {TreeAnswer("response", 200, TRUE, q, <<>>) : q \in TreeListings}

GitHubIndexCalls ==
    {[fn |-> "get_file_index", ts |-> ts, filter |-> f, ans |-> a] :
        ts \in GitHubBackends, f \in IndexFilters, a \in TreeAnswers}

CallGitHubGetFileIndex ==
    /\ call.fn = "get_file_index"
    /\ call.ts.kind = "GitHub"
    /\ Returns(GitHubSource_get_file_index(call.ts, call.filter, call.ans))

GitHubIndexNext == CallGitHubGetFileIndex

GitHubIndexSpec == CallInit(GitHubIndexCalls) /\ [][GitHubIndexNext]_vars

\* ----- the panels under key events without end, between two reloads: the
\* App has loaded one listing after another (the first may be empty), and
\* the keys are those that move the focus or a cursor or toggle a selection,
\* so that the source path keeps its value and the states are finitely many.
PanelsKeys ==
    {Key("Enter"), Key("Esc"), Key("Up"), Key("Down"), Key("Left"),
     Key("Right"), KeyChar(" ")}

\* the App after the reloads of two listings of the local directory
Reloaded(earlier, listing) ==
    LET ts == [kind |-> "FileSystem", base_path |-> LocalDir]
        once == reload_indexed(reload_created(App_new(LocalDir), ts),
                               get_file_index(ts, Ok(earlier)))
    IN reload_indexed(reload_created(once, ts),
                      get_file_index(ts, Ok(listing)))

PanelsInit ==
    /\ \E earlier \in {SortedSeq(S) : S \in SUBSET FilePaths},
          listing \in MergeListings :
            app = Reloaded(earlier, listing)
    /\ reload_task = IdleTask
    /\ merge_task = IdleTask
    /\ nkeys = 0
    /\ mon = MonInit
    /\ wm = NoFrame
    /\ io = <<>>
    /\ call = NoCall
    /\ ret = NoRet
    /\ walk = NoWalk
    /\ field = NoField
    /\ browser = NoBrowser

\* The driving loop polls a key event and hands it to App::update.
PanelsKeyEvent ==
    /\ ~app.exit_requested
    /\ \E key_event \in PanelsKeys, clip \in Clips :
          app' = update(app, key_event, clip)
    /\ UNCHANGED <<reload_task, merge_task, nkeys, mon>>
    /\ UNCHANGED aux

PanelsNext == PanelsKeyEvent

PanelsSpec == PanelsInit /\ [][PanelsNext]_vars

\* ----- the two list panels with more items than a page shows: an index of
\* up to MaxItems files is loaded, the focus is on the filters panel or on
\* the files panel, and Up, Down, Space and further reloads follow without
\* end.
MaxItems == 11

\* one-letter file names, so that every file is an extension item as well
ListNames ==
    <<"a", "b", "c", "d", "e", "g", "h", "i", "m", "n", "o", "p", "r", "s">>

ListListings == {[i \in 1..n |-> <<ListNames[i]>>] : n \in {0, 1, MaxItems}}

ListKeys == {Key("Up"), Key("Down"), KeyChar(" ")}

\* reload_files_immediate from its start to its end, on the local directory
reload_files_immediate(a, listing) ==
    LET ts == [kind |-> "FileSystem", base_path |-> LocalDir]
    IN reload_indexed(reload_created(reload_begin(a), ts),
                      get_file_index(ts, Ok(listing)))

ListInit ==
    /\ \E listing \in ListListings, enters \in {1, 2} :
          LET loaded == reload_files_immediate(App_new(LocalDir), listing)
              filters == update(loaded, Key("Enter"), Err("clipboard"))
          IN app = IF enters = 1 THEN filters
                   ELSE update(filters, Key("Enter"), Err("clipboard"))
    /\ reload_task = IdleTask
    /\ merge_task = IdleTask
    /\ nkeys = 0
    /\ mon = MonInit
    /\ wm = NoFrame
    /\ io = <<>>
    /\ call = NoCall
    /\ ret = NoRet
    /\ walk = NoWalk
    /\ field = NoField
    /\ browser = NoBrowser

\* The driving loop polls a key event and hands it to App::update.
ListKeyEvent ==
    /\ \E key_event \in ListKeys, clip \in Clips :
          app' = update(app, key_event, clip)
    /\ UNCHANGED <<reload_task, merge_task, nkeys, mon>>
    /\ UNCHANGED aux

\* The driving loop runs a reload, and the backend lists the directory,
\* which has changed since the last reload.
ListReload ==
    /\ \E listing \in ListListings :
          /\ listing # [i \in 1..Len(app.loaded_files) |->
                            app.loaded_files[i].path]
          /\ app' = reload_files_immediate(app, listing)
    /\ UNCHANGED <<reload_task, merge_task, nkeys, mon>>
    /\ UNCHANGED aux

ListNext == ListKeyEvent \/ ListReload

ListSpec == ListInit /\ [][ListNext]_vars

\* ----- the source-path field on its own, in bytes: it starts with the
\* default path and the focus; keys are typed, the clipboard is pasted, the
\* focus leaves and comes back, and every frame draws the panel.  Values
\* are capped at MaxValueLen bytes.
MaxValueLen == 4

FieldChars == {"x", "e-acute", "euro"}

FieldKeys ==
    {KeyChar(c) : c \in FieldChars}
    \cup {KeyCtrl("v"), KeyCtrl("c"), Key("Backspace"), Key("Left"),
          Key("Right")}

\* what the clipboard holds at a paste
FieldClips ==
    {Ok(<<"x">>), Ok(encode_utf8("e-acute")), Ok(<<"x">> \o encode_utf8("e-acute")),
     Err("clipboard")}

FieldInit ==
    /\ app = App_new(LocalDir)
    /\ reload_task = IdleTask
    /\ merge_task = IdleTask
    /\ nkeys = 0
    /\ mon = MonInit
    /\ wm = NoFrame
    /\ io = <<>>
    /\ call = NoCall
    /\ ret = NoRet
    /\ walk = NoWalk
    /\ field = [pc |-> "live", focused |-> TRUE, value |-> LocalDir,
                cursor_pos |-> Len(LocalDir)]
    /\ browser = NoBrowser

FieldUnchanged ==
    UNCHANGED <<app, reload_task, merge_task, nkeys, mon, wm, io, call, ret,
                walk, browser>>

\* the bytes a key event would add
Added(key_event, clip) ==
    IF key_event.code = "Char" /\ ~key_event.ctrl
    THEN Len(encode_utf8(key_event.c))
    ELSE IF key_event.code = "Char" /\ key_event.c = "v" /\ clip.ok
    THEN Len(clip.val)
    ELSE 0

\* App::update hands a key event to the focused source-path panel
FieldKey ==
    /\ field.pc = "live" /\ field.focused
    /\ \E key_event \in FieldKeys, clip \in FieldClips :
          /\ Len(field.value) + Added(key_event, clip) <= MaxValueLen
          /\ \E after \in {SourcePathPanel_handle_input_bytes(
                               [value |-> field.value,
                                cursor_pos |-> field.cursor_pos],
                               key_event, clip)} :
                field' = IF after = Panicked THEN Panicked
                         ELSE [field EXCEPT !.value = after.value,
                                            !.cursor_pos = after.cursor_pos]
    /\ FieldUnchanged

\* App::update, F3 on the focused source-path panel
FieldClear ==
    /\ field.pc = "live" /\ field.focused
    /\ field' = [field EXCEPT !.value = <<>>, !.cursor_pos = 0]
    /\ FieldUnchanged

\* Enter moves the focus on to the filters panel
FieldLeave ==
    /\ field.pc = "live" /\ field.focused
    /\ field' = [field EXCEPT !.focused = FALSE]
    /\ FieldUnchanged

\* Esc on the filters panel moves the focus back: set_cursor_to_end
FieldReturn ==
    /\ field.pc = "live" /\ ~field.focused
    /\ field' = [field EXCEPT !.focused = TRUE,
                              !.cursor_pos = Len(field.value)]
    /\ FieldUnchanged

\* a frame is drawn
FieldDraw ==
    /\ field.pc = "live"
    /\ SourcePathPanel_draw([value |-> field.value,
                             cursor_pos |-> field.cursor_pos]) = Panicked
    /\ field' = Panicked
    /\ FieldUnchanged

FieldNext ==
    \/ FieldKey
    \/ FieldClear
    \/ FieldLeave
    \/ FieldReturn
    \/ FieldDraw

FieldSpec == FieldInit /\ [][FieldNext]_vars

\* ----- the directory browser of main.rs under its keys, in directories of
\* up to MaxEntries entries, at most MaxDepth levels below the root.
BrowserListings == SeqsOver({"dir", "file"}, MaxEntries)

BrowserInit ==
    /\ app = App_new(LocalDir)
    /\ reload_task = IdleTask
    /\ merge_task = IdleTask
    /\ nkeys = 0
    /\ mon = MonInit
    /\ wm = NoFrame
    /\ io = <<>>
    /\ call = NoCall
    /\ ret = NoRet
    /\ walk = NoWalk
    /\ field = NoField
    /\ \E depth \in 0..MaxDepth, listing \in BrowserListings :
          browser = BrowserApp_new(depth, listing)

BrowserUnchanged ==
    UNCHANGED <<app, reload_task, merge_task, nkeys, mon, wm, io, call, ret,
                walk, field>>

\* run_app: KeyCode::Down
BrowserDown ==
    /\ browser.pc = "live"
    /\ browser' = BrowserApp_next(browser)
    /\ BrowserUnchanged

\* run_app: KeyCode::Up
BrowserUp ==
    /\ browser.pc = "live"
    /\ browser' = BrowserApp_previous(browser)
    /\ BrowserUnchanged

\* run_app: KeyCode::Enter | KeyCode::Right, on a directory
BrowserEnter ==
    /\ browser.pc = "live"
    /\ browser.depth < MaxDepth
    /\ browser.selected < Len(browser.entries)
    /\ browser.entries[browser.selected + 1] = "dir"
    /\ \E listing \in BrowserListings :
          browser' = BrowserApp_enter_directory(browser, listing)
    /\ BrowserUnchanged

\* run_app: KeyCode::Left | KeyCode::Esc
BrowserLeft ==
    /\ browser.pc = "live"
    /\ \E listing \in BrowserListings :
          browser' = BrowserApp_go_up(browser, listing)
    /\ BrowserUnchanged

BrowserNext ==
    \/ BrowserDown
    \/ BrowserUp
    \/ BrowserEnter
    \/ BrowserLeft

BrowserSpec == BrowserInit /\ [][BrowserNext]_vars

\* ================================================================ claims
ReloadStarts == reload_task.pc # "create" /\ reload_task'.pc = "create"

MergeStarts == merge_task.pc # "write" /\ merge_task'.pc = "write"

ReloadEnds == reload_task.pc # "idle" /\ reload_task'.pc = "idle"

KeyHandled == nkeys' = nkeys + 1

TasksIdle == reload_task.pc = "idle" /\ merge_task.pc = "idle"

IndexExts(a) == {LastDotPart(q) : q \in IndexPaths(a)}

\* C1: at most one operation is in progress: a reload and a merge are never
\* in flight together, an operation in flight keeps busy set, and an
\* operation starts only from a state in which busy is false and nothing is
\* in flight.
C1_MutualExclusion ==
    [][ /\ ~(reload_task'.pc # "idle" /\ merge_task'.pc # "idle")
        /\ (reload_task'.pc # "idle" \/ merge_task'.pc # "idle")
               => app'.processing
        /\ (ReloadStarts \/ MergeStarts) => (~app.processing /\ TasksIdle)
      ]_vars

\* C1 witness: a merge is in flight while a reload request waits.
C1_Witness == merge_task.pc = "write" /\ app.reload_files_needed

\* C2 as claimed: F1 or F2 handled while busy leaves the matching intent
\* pending.
C2_Original ==
    [][ \A clip \in Clips :
          (KeyHandled /\ app.processing) =>
             /\ app' = update(app, Key("F1"), clip)
                    => app'.reload_files_needed
             /\ app' = update(app, Key("F2"), clip) => app'.merge_needed
      ]_vars

\* C2 amended: a key handled while busy never changes the merge intent, and
\* changes the reload intent only by setting it when the key moves the focus
\* off the source-path panel with a changed value (F1, F2 and Enter on the
\* output panels are dropped); nothing starts while busy stays set; and a
\* reload intent that is pending while busy is executed later, unless the
\* user quits first.
C2_Amended ==
    /\ [][ /\ (KeyHandled /\ app.processing) =>
                /\ app'.merge_needed = app.merge_needed
                /\ app'.reload_files_needed # app.reload_files_needed =>
                      /\ app'.reload_files_needed
                      /\ app.focused_panel = "SourcePath"
                      /\ app'.focused_panel # "SourcePath"
                      /\ app.source_path_panel.value # app.prev_source_path
           /\ app.processing => (~ReloadStarts /\ ~MergeStarts)
         ]_vars
    /\ (app.processing /\ app.reload_files_needed)
           ~> (reload_task.pc = "create" \/ app.exit_requested)

\* C2 witness: a reload intent is pending while the controller is busy.
C2_Witness == app.processing /\ app.reload_files_needed

\* C3: when F1 is pressed on an idle controller and pressed again while the
\* reload it caused is in flight, with no other request in between, exactly
\* one reload has been executed by the time the controller is idle again.
C3_SingleFlight ==
    mon.sf_phase \in {"first", "dup"} =>
        /\ mon.sf_runs <= 1
        /\ (mon.sf_phase = "dup" /\ Idle(app) /\ TasksIdle) => mon.sf_runs = 1

\* C3 witness: idle again after F1 was repeated during the first reload.
C3_Witness ==
    mon.sf_phase = "dup" /\ Idle(app) /\ TasksIdle /\ mon.sf_runs = 1

\* C4: a tick with both intents pending and busy false starts the reload and
\* clears only the reload intent; the merge intent stays pending for as long
\* as a reload is in flight; a merge starts only when no reload is in flight
\* or pending, over the selected files of the index as it then is, and that
\* index is not replaced while the merge is in flight.
C4_ReloadBeforeMerge ==
    [][ /\ (app.reload_files_needed /\ app.merge_needed /\ ~app.processing
            /\ app'.processing)
               => (ReloadStarts /\ ~app'.reload_files_needed
                   /\ app'.merge_needed /\ merge_task'.pc = "idle")
        /\ (reload_task.pc # "idle" /\ app.merge_needed)
               => (app'.merge_needed /\ merge_task'.pc = "idle")
        /\ MergeStarts =>
               /\ reload_task.pc = "idle" /\ ~app.reload_files_needed
               /\ DOMAIN merge_task'.files_map
                      = app.selected_files \cap IndexPaths(app)
        /\ merge_task'.pc = "write" =>
               \A q \in DOMAIN merge_task'.files_map :
                   merge_task'.files_map[q] \in Range(app'.loaded_files)
      ]_vars

\* C4 witness: a merge is in flight over a non-empty selection, after a
\* reload that started while the merge intent was pending too.
C4_Witness ==
    /\ merge_task.pc = "write" /\ mon.waited /\ mon.last_reload = "ok"
    /\ DOMAIN merge_task.files_map # {}

C6_PathReadAtStart ==
    [][ /\ ReloadStarts => reload_task'.path = app.source_path_panel.value
        /\ (reload_task.pc # "idle" /\ reload_task'.pc # "idle")
               => reload_task'.path = reload_task.path
        /\ (reload_task.pc = "create" /\ reload_task'.pc # "create") =>
               \E fs \in FsPathStates :
                   LET r == create_text_source(reload_task.path, fs)
                   IN app'.text_source = IF r.ok THEN Some(r.val) ELSE None
      ]_vars

\* C6 witness: a reload in flight has stored the backend for a path that
\* differs from the value the field held when the reload was requested.
C6_Witness ==
    /\ reload_task.pc = "index" /\ mon.retargeted
    /\ app.text_source.val.kind = "FileSystem"
    /\ app.text_source.val.base_path = reload_task.path

\* C7: when a reload ends, every path of the new index is selected, the
\* filter items are `*` followed by the extensions of the new index, and
\* every item is selected.
C7_ReloadSelectsAll ==
    [][ ReloadEnds =>
           /\ IndexPaths(app') \subseteq app'.selected_files
           /\ app'.filters_panel.items
                  = <<Star>> \o SortedSeq(IndexExts(app'))
           /\ Range(app'.filters_panel.items)
                  \subseteq app'.selected_extensions
      ]_vars

\* C7 witness: a reload has ended well on a non-empty index, all of it
\* selected, when the selection before was a strict subset of the old index.
C7_Witness ==
    /\ mon.partial /\ mon.last_reload = "ok" /\ reload_task.pc = "idle"
    /\ app.loaded_files # <<>>
    /\ IndexPaths(app) \subseteq app.selected_files

\* C8 as claimed: the selection sets hold only paths and extensions of the
\* current index.
C8_NoStaleSelection ==
    /\ app.selected_files \subseteq IndexPaths(app)
    /\ app.selected_extensions \subseteq IndexExts(app) \cup {Star}

\* C9: a reload that ends because construction or indexing failed leaves an
\* empty index and empty panels, no backend when construction failed, busy
\* cleared and the exit flag as it was.
C9_FailedReloadClearsIndex ==
    [][ (ReloadEnds /\ mon'.last_reload \in {"create_err", "index_err"}) =>
           /\ app'.loaded_files = <<>>
           /\ app'.source_files_panel.items = <<>>
           /\ app'.filters_panel.items = <<Star>>
           /\ mon'.last_reload = "create_err" => app'.text_source = None
           /\ ~app'.processing
           /\ app'.exit_requested = app.exit_requested
      ]_vars

\* C9 witness: indexing has failed after an earlier reload had loaded files
\* (their paths are still in the selection); the index is empty and the
\* controller not busy.
C9_Witness ==
    /\ mon.last_reload = "index_err" /\ reload_task.pc = "idle"
    /\ app.loaded_files = <<>> /\ app.selected_files # {}
    /\ ~app.processing

\* The origin a backend gives the files it lists.
OriginOf(ts) ==
    IF ts.kind = "GitHub"
    THEN [kind |-> "GitHub", owner |-> ts.owner, repo |-> ts.repo,
          branch |-> ts.branch]
    ELSE [kind |-> "FileSystem", base_path |-> ts.base_path]

IndexMatchesBackend(a) ==
    IF a.text_source.some
    THEN \A i \in 1..Len(a.loaded_files) :
             a.loaded_files[i].source_type = OriginOf(a.text_source.val)
    ELSE a.loaded_files = <<>>

\* C10 as claimed: in every state every file of the index carries the origin
\* of the backend held, and the index is empty when none is held.
C10_Original == IndexMatchesBackend(app)

\* C10 amended: except while a reload stands between storing its new backend
\* and receiving that backend's index, every file of the index carries the
\* origin of the backend held, and the index is empty when none is held;
\* backend and index change only in steps of a reload (the backend when
\* construction answers, the index when the reload ends).
C10_IndexMatchesBackend ==
    [][ /\ reload_task'.pc # "index" => IndexMatchesBackend(app')
        /\ (app'.text_source # app.text_source
            \/ app'.loaded_files # app.loaded_files)
               => reload_task.pc # "idle"
      ]_vars

\* C10 witness: a GitHub backend holds a non-empty index that replaced an
\* earlier one (a path of the earlier index is still in the selection).
C10_Witness ==
    /\ reload_task.pc = "idle" /\ app.text_source.some
    /\ app.text_source.val.kind = "GitHub"
    /\ app.loaded_files # <<>>
    /\ ~(app.selected_files \subseteq IndexPaths(app))

\* write_merged has left its loop over the selected files
LoopDone == wm.pc \in {"clipboard", "returned", "done"}

\* the positions of io that write the output file or push to the clipboard
OutputOps ==
    {i \in 1..Len(io) : io[i].op \in {"write_file", "copy_clipboard"}}

\* C11: a content fetch failing with an error other than NotTextFile aborts
\* the merge: the merge returns an error and nothing is written to the file
\* or pushed to the clipboard.
C11_OtherErrorsAbort ==
    (wm.pc = "done"
        /\ \E i \in 1..Len(wm.fetches) :
              /\ ~wm.fetches[i].res.ok
              /\ wm.fetches[i].res.err.kind # "NotTextFile")
        => /\ ~wm.result.ok
           /\ OutputOps = {}

NewLine == <<"\n">>

\* the block the merged output holds for one file
ExpectedBlock(path, content) ==
    <<"--- START FILE: ">> \o path \o <<" ---">> \o NewLine
    \o content \o NewLine
    \o <<"--- END FILE: ">> \o path \o <<" ---">> \o NewLine
    \o NewLine

RECURSIVE ExpectedOutput(_)
\* one block per successful fetch, in the order of the fetches
ExpectedOutput(fetches) ==
    IF fetches = <<>> THEN <<>>
    ELSE (IF Head(fetches).res.ok
          THEN ExpectedBlock(Head(fetches).path, Head(fetches).res.val)
          ELSE <<>>)
         \o ExpectedOutput(Tail(fetches))

\* C12: the merged output is exactly one block per file of the index that is
\* selected and whose content was fetched, and nothing else: every selected
\* file of the index is fetched once, no other file is, a failed fetch adds
\* nothing, and what reaches the file, the clipboard and the caller is that
\* text.
C12_MergedIsBlocks ==
    LoopDone =>
        /\ {wm.fetches[i].path : i \in 1..Len(wm.fetches)}
              = IndexPaths(app) \cap app.selected_files
        /\ \A i, j \in 1..Len(wm.fetches) :
              wm.fetches[i].path = wm.fetches[j].path => i = j
        /\ wm.merged = ExpectedOutput(wm.fetches)
        /\ \A i \in OutputOps : io[i].content = wm.merged
        /\ (wm.pc \in {"returned", "done"} /\ wm.result.ok)
              => wm.result.val = wm.merged

\* C12 witness: a merge of two selected files has ended, one fetched with
\* content "A" and one that is not UTF-8 text; the output is the one block.
C12_Witness ==
    /\ wm.pc = "done"
    /\ Len(wm.fetches) = 2
    /\ \E i, j \in 1..2 :
          /\ wm.fetches[i].res = Ok(<<"A">>)
          /\ ~wm.fetches[j].res.ok
          /\ wm.fetches[j].res.err.kind = "NotTextFile"
          /\ wm.merged = ExpectedBlock(wm.fetches[i].path, <<"A">>)
    /\ \E i \in OutputOps : io[i].op = "write_file" /\ io[i].st = "ok"

\* the position of a path in the file index
IndexPos(a, q) == CHOOSE i \in 1..Len(a.loaded_files) : a.loaded_files[i].path = q

\* C13: the blocks appear in the order of the file index.
C13_IndexOrder ==
    LoopDone =>
        \A i, j \in 1..Len(wm.fetches) :
            i < j => IndexPos(app, wm.fetches[i].path)
                        < IndexPos(app, wm.fetches[j].path)

\* the number of operations of one kind in io
Count(op) == Cardinality({i \in 1..Len(io) : io[i].op = op})

\* C14: in a merge in which no output operation fails, the file is written
\* once if the destination is File or FileAndClipboard and not at all
\* otherwise, and the clipboard is pushed once if the destination is
\* Clipboard or FileAndClipboard and not at all otherwise.
C14_DeliveredOnce ==
    (wm.pc = "done" /\ \A i \in OutputOps : io[i].st = "ok") =>
        LET dest == app.output_panel.destination
        IN /\ Count("write_file")
                 = (IF dest \in {"File", "FileAndClipboard"} THEN 1 ELSE 0)
           /\ Count("copy_clipboard")
                 = (IF dest \in {"Clipboard", "FileAndClipboard"} THEN 1
                    ELSE 0)

\* C15: either backend answers InvalidSource, without any disk read or
\* network request, for a source file whose origin is of the other kind.
C15_RejectsForeignOrigin ==
    (call.fn = "get_file_content" /\ ret.done
        /\ call.source_file.source_type.kind # call.ts.kind)
        => /\ ret.val = Err(InvalidSource)
           /\ io = <<>>

\* C15 witness: the file system backend has answered for a GitHub-origin
\* file while the disk holds a readable text file.
C15_Witness ==
    /\ call.fn = "get_file_content" /\ ret.done
    /\ call.ts.kind = "FileSystem"
    /\ call.source_file.source_type.kind = "GitHub"
    /\ call.ans.st = "text"
    /\ ~ret.val.ok

\* C15 second case: the GitHub backend has answered for a file-system-origin
\* file while the network would deliver the text.
C15_WitnessGitHub ==
    /\ call.fn = "get_file_content" /\ ret.done
    /\ call.ts.kind = "GitHub"
    /\ call.source_file.source_type.kind = "FileSystem"
    /\ call.ans.st = "response" /\ call.ans.utf8
    /\ ~ret.val.ok

\* C16: is_text is false when the extension is in the extra binary set (also
\* when it is in the extra text set too); otherwise true when it is in the
\* extra text set (also when it is in the built-in table); otherwise true
\* exactly when it is not in the built-in table.  With the default config
\* every extension of the built-in table is binary.
C16_IsTextPolicy ==
    (call.fn = "is_text_extension" /\ ret.done) =>
        LET e == call.ext
            bin == call.config.additional_binary_extensions
            txt == call.config.additional_text_extensions
        IN /\ e \in bin => ret.val = FALSE
           /\ (e \notin bin /\ e \in txt) => ret.val = TRUE
           /\ (e \notin bin /\ e \notin txt)
                  => (ret.val = TRUE <=> e \notin NON_TEXT_EXTENSIONS)
           /\ (call.config = FilterConfig_default
               /\ e \in NON_TEXT_EXTENSIONS) => ret.val = FALSE

\* C16 witness: an extension of the built-in table that is in both extra
\* sets has been classified binary.
C16_Witness ==
    /\ call.fn = "is_text_extension" /\ ret.done
    /\ call.ext \in NON_TEXT_EXTENSIONS
    /\ call.ext \in call.config.additional_binary_extensions
    /\ call.ext \in call.config.additional_text_extensions
    /\ ret.val = FALSE

\* a name or path written without wildcard, without a leading and without a
\* trailing slash
LiteralPath(s) ==
    /\ s # <<>>
    /\ ~Contains(s, "*")
    /\ s[1] # "/"
    /\ s[Len(s)] # "/"

MatchCalled == call.fn = "match_pattern" /\ ret.done

\* C17: an anchored pattern "/s", s a literal, matches the relative path r
\* exactly when r equals s or r starts with s followed by "/".
C17_AnchoredLiteral ==
    (MatchCalled /\ StartsWith(call.pat, Slash) /\ LiteralPath(Tail(call.pat)))
        => LET s == Tail(call.pat)
               r == call.rel_path
           IN ret.val = TRUE <=> (r = s \/ StartsWith(r, s \o Slash))

\* C17 witness: "/b" has been matched against "b/a/b" and ignores it.
C17_Witness ==
    /\ MatchCalled
    /\ call.pat = <<"/", "b">>
    /\ call.rel_path = <<"b", "/", "a", "/", "b">>
    /\ ret.val = TRUE

\* C17 second case: "/b" has been matched against "a/b" and does not ignore it.
C17_NotBelowOther ==
    (MatchCalled /\ call.pat = <<"/", "b">>
        /\ call.rel_path = <<"a", "/", "b">>) => ret.val = FALSE

\* the path r has the name s as one of its directories or as its last
\* component, at whatever depth
NamedAtAnyDepth(r, s) ==
    \/ r = s
    \/ StartsWith(r, s \o Slash)
    \/ EndsWith(r, Slash \o s)
    \/ \E i \in 1..Len(r) :
          /\ r[i] = "/"
          /\ StartsWith(SubSeq(r, i + 1, Len(r)), s \o Slash)

\* C18: an unanchored literal pattern ignores the named directory at any
\* depth: whenever the relative path has the name as one of its components,
\* the pattern matches it.
C18_AnyDepth ==
    (MatchCalled /\ LiteralPath(call.pat) /\ ~Contains(call.pat, "/")
        /\ NamedAtAnyDepth(call.rel_path, call.pat))
        => ret.val = TRUE

\* a pattern that does not start and does not end with "/"
PlainPattern(p) == p[1] # "/" /\ p[Len(p)] # "/"

\* the number of '*' in a pattern
Stars(p) == Cardinality({i \in 1..Len(p) : p[i] = "*"})

\* C19: a pattern not starting with "/" that has exactly one '*' matches r
\* exactly when r starts with the part before the '*' and ends with the part
\* after it; one with two or more '*' matches only as an unanchored literal,
\* r equal to p or r starting with p followed by "/".
C19_SingleWildcard ==
    (MatchCalled /\ PlainPattern(call.pat)) =>
        LET p == call.pat
            r == call.rel_path
        IN /\ Stars(p) = 1 =>
                (ret.val = TRUE <=>
                    /\ StartsWith(r, SubSeq(p, 1, Find(p, "*") - 1))
                    /\ EndsWith(r, SubSeq(p, Find(p, "*") + 1, Len(p))))
           /\ Stars(p) >= 2 =>
                (ret.val = TRUE <=> (r = p \/ StartsWith(r, p \o Slash)))

\* C20: for a pattern p not ending in "/", the pattern p followed by one "/"
\* matches exactly the relative paths that p matches.
C20_TrailingSlash ==
    (MatchCalled /\ Len(call.pat) >= 2
        /\ call.pat[Len(call.pat)] = "/"
        /\ call.pat[Len(call.pat) - 1] # "/")
        => ret.val = match_pattern(call.rel_path,
                                   SubSeq(call.pat, 1, Len(call.pat) - 1))

\* get_file_index of the file system backend has returned
FsIndexReturned ==
    call.fn = "get_file_index" /\ call.ts.kind = "FileSystem" /\ ret.done

\* the components of a relative path
Components(rel_path) == Range(Split(rel_path, "/"))

\* C21: file system index() never returns an entry whose relative path has a
\* component starting with "." or ending with "~".
C21_NoHiddenComponent ==
    (FsIndexReturned /\ ret.val.ok) =>
        \A i \in 1..Len(ret.val.val) :
            \A c \in Components(ret.val.val[i].path) :
                c[1] # "." /\ c[Len(c)] # "~"

\* C21 witness: an index has been returned for a tree that holds a file
\* below a directory whose name ends with "~", and a file that is returned.
C21_Witness ==
    /\ FsIndexReturned /\ ret.val.ok
    /\ Len(ret.val.val) >= 1
    /\ \E e \in call.tree :
          /\ e.kind = "file"
          /\ StartsWith(e.path, <<"b", "~", "/">>)

\* the entry itself and the directories on the way to it from the root
OnTheWay(tree, e) ==
    {d \in tree : d = e \/ StartsWith(e.path, d.path \o Slash)}

\* the name, the ignore ruleset and the extension let the entry pass
Admitted(e) ==
    LET name == file_name(e.path)
    IN /\ name[1] # "." /\ name[Len(name)] # "~"
       /\ \A k \in 1..Len(call.gitignore_rules) :
             ~match_pattern(e.path, call.gitignore_rules[k])
       /\ \/ ~get_extension(e.path).some
          \/ is_text_extension(call.filter, get_extension(e.path).val)

\* C22: file system index() returns exactly the regular files for which the
\* file and every directory on the way to it have an admissible name, are
\* not matched by the ignore ruleset and have no extension or a text one;
\* each once, with its path relative to the root.
C22_ExactlyTheAdmitted ==
    (FsIndexReturned /\ ret.val.ok) =>
        /\ {ret.val.val[i].path : i \in 1..Len(ret.val.val)}
              = {e.path : e \in {f \in call.tree :
                                    /\ f.kind = "file"
                                    /\ \A d \in OnTheWay(call.tree, f) :
                                          Admitted(d)}}
        /\ \A i, j \in 1..Len(ret.val.val) :
              ret.val.val[i].path = ret.val.val[j].path => i = j
        /\ \A i \in 1..Len(ret.val.val) :
              ret.val.val[i].source_type
                  = [kind |-> "FileSystem", base_path |-> call.ts.base_path]

\* C22 witness: with "o" declared text, the file b below the directory a.O
\* has been returned, while the root's own b is ignored by the pattern "b".
C22_Witness ==
    /\ FsIndexReturned /\ ret.val.ok
    /\ call.gitignore_rules = << <<"b">> >>
    /\ DirEntry(<<"b">>, "file") \in call.tree
    /\ Len(ret.val.val) = 1
    /\ ret.val.val[1].path = <<"a", ".", "O", "/", "b">>

\* C23: when a directory that is not skipped cannot be read, index() returns
\* an error, IoError or PermissionDenied, and no file list.
C23_UnreadableAborts ==
    (FsIndexReturned
        /\ \/ call.root = "locked"
           \/ call.root = "dir"
              /\ \E e \in call.tree :
                    /\ e.kind = "locked"
                    /\ \A d \in OnTheWay(call.tree, e) : Admitted(d))
        => /\ ~ret.val.ok
           /\ ret.val.err.kind \in {"IoError", "PermissionDenied"}

\* C23 witness: the tree holds a regular file that passes every test and a
\* directory below the root that cannot be read, and index() has failed.
C23_Witness ==
    /\ FsIndexReturned
    /\ call.root = "dir"
    /\ DirEntry(<<"b">>, "file") \in call.tree
    /\ call.gitignore_rules = <<>>
    /\ \E e \in call.tree : e.kind = "locked" /\ Admitted(e)
    /\ ~ret.val.ok

\* C24: the file system backend resolves the file's path against its own
\* root: whatever it looks at on disk is root_path/file.path, a missing
\* file gives PathNotFound, bytes that are not UTF-8 give NotTextFile, and
\* text is returned as it is.
C24_ResolvesAgainstOwnRoot ==
    (call.fn = "get_file_content" /\ ret.done
        /\ call.ts.kind = "FileSystem"
        /\ call.source_file.source_type.kind = "FileSystem")
        => LET full_path == call.ts.base_path \o Slash
                            \o call.source_file.path
           IN /\ \A i \in 1..Len(io) : io[i].target = full_path
              /\ call.ans.st = "missing"
                    => ret.val = Err(TextSourceError("PathNotFound",
                                                     full_path))
              /\ call.ans.st = "binary"
                    => ~ret.val.ok /\ ret.val.err.kind = "NotTextFile"
              /\ call.ans.st = "text" => ret.val = Ok(call.ans.text)

ParseReturned == call.fn = "parse_github_url" /\ ret.done

\* a segment with one trailing ".git" removed
WithoutDotGit(seg) ==
    IF EndsWith(seg, DotGit) THEN SubSeq(seg, 1, Len(seg) - Len(DotGit))
    ELSE seg

\* the URL is https://github.com/ followed by segments none of which is empty
GitHubUrlOf(input, n) ==
    /\ input.is_url
    /\ input.scheme = HttpsScheme
    /\ input.host = GitHubHost
    /\ Len(input.segs) >= n
    /\ \A i \in 1..Len(input.segs) : input.segs[i] # <<>>

\* C25: https://github.com/<owner>/<repo> gives (owner, repo, "main", no
\* subpath) and https://github.com/<owner>/<repo>/tree/<branch>/<s1>/.../<sn>
\* gives (owner, repo, branch, s1/.../sn), no subpath when n = 0; in both
\* the repo is the segment with one trailing ".git" removed.
C25_ParsedParts ==
    (ParseReturned /\ GitHubUrlOf(call.input, 2)) =>
        LET segs == call.input.segs
        IN /\ Len(segs) = 2 =>
                ret.val = Ok([owner |-> segs[1],
                              repo |-> WithoutDotGit(segs[2]),
                              branch |-> <<"m", "a", "i", "n">>,
                              subpath |-> None])
           /\ (Len(segs) >= 4 /\ segs[3] = <<"t", "r", "e", "e">>) =>
                ret.val = Ok([owner |-> segs[1],
                              repo |-> WithoutDotGit(segs[2]),
                              branch |-> segs[4],
                              subpath |->
                                  IF Len(segs) = 4 THEN None
                                  ELSE Some(Join(SubSeq(segs, 5, Len(segs)),
                                                 <<"/">>))])

\* the segments Url::path_segments gives: a URL without a path has the path
\* "/", which is one empty segment
PathSegmentsOf(input) ==
    IF input.segs = <<>> THEN <<(<<>>)>> ELSE input.segs

\* C26: parse_url gives InvalidSource, and no tuple, for a string that is no
\* URL and for a URL whose scheme is not https, whose host is not
\* github.com, or whose path has fewer than two segments.
C26_InvalidSource ==
    (ParseReturned
        /\ \/ ~call.input.is_url
           \/ call.input.scheme # <<"h", "t", "t", "p", "s">>
           \/ call.input.host # GitHubHost
           \/ Len(PathSegmentsOf(call.input)) < 2)
        => ret.val = Err("InvalidSource")

\* C26 witness: https://github.com.x/o/r - two segments, https, another
\* host - has been refused.
C26_Witness ==
    /\ ParseReturned
    /\ call.input.is_url
    /\ call.input.scheme = HttpsScheme
    /\ call.input.host = GitHubHost \o <<".", "x">>
    /\ call.input.segs = <<(<<"o">>), (<<"r">>)>>
    /\ ~ret.val.ok

GitHubIndexReturned ==
    call.fn = "get_file_index" /\ call.ts.kind = "GitHub" /\ ret.done

\* C27: GitHub index() answers the tree listing by status: 403
\* RateLimitExceeded, 404 RepoNotFound, any other status outside 2xx
\* GitHubError with the body, a transport failure NetworkError; a file list
\* only for a 2xx response.
C27_IndexByStatus ==
    GitHubIndexReturned =>
        LET a == call.ans
            success == a.status >= 200 /\ a.status <= 299
        IN /\ a.st \in {"send_failed", "body_failed"}
                => ~ret.val.ok /\ ret.val.err.kind = "NetworkError"
           /\ (a.st = "response" /\ a.status = 403)
                => ret.val = Err(TextSourceError("RateLimitExceeded", <<>>))
           /\ (a.st = "response" /\ a.status = 404)
                => ret.val = Err(TextSourceError("RepoNotFound", <<>>))
           /\ (a.st = "response" /\ ~success /\ a.status \notin {403, 404})
                => ret.val = Err(TextSourceError("GitHubError", a.text))
           /\ ret.val.ok => (a.st = "response" /\ success)

\* C27 witness: a 404 has been answered with RepoNotFound.
C27_Witness ==
    /\ GitHubIndexReturned
    /\ call.ans.st = "response" /\ call.ans.status = 404
    /\ ~ret.val.ok /\ ret.val.err.kind = "RepoNotFound"

\* the entries of a listing that the claim keeps: blobs whose path starts
\* with the subpath, if there is one, and whose extension is absent or text
Kept(listing) ==
    SelectSeq(listing,
              LAMBDA item :
                /\ item.type = "blob"
                /\ call.ts.subpath.some
                      => StartsWith(item.path, call.ts.subpath.val)
                /\ get_extension(item.path).some
                      => is_text_extension(call.filter,
                                           get_extension(item.path).val))

\* C28: on a successful listing GitHub index() returns, in listing order,
\* one SourceFile for each blob whose path starts with the subpath (every
\* blob without a subpath) and whose extension is absent or text; an entry
\* inside the subpath directory is returned with its path relative to it.
C28_IndexOfListing ==
    (GitHubIndexReturned /\ call.ans.st = "response"
        /\ call.ans.status = 200 /\ call.ans.json) =>
        /\ ret.val.ok
        /\ Len(ret.val.val) = Len(Kept(call.ans.tree))
        /\ \A i \in 1..Len(Kept(call.ans.tree)) :
              LET item == Kept(call.ans.tree)[i]
                  sf == ret.val.val[i]
              IN /\ sf.source_type = [kind |-> "GitHub",
                                      owner |-> call.ts.owner,
                                      repo |-> call.ts.repo,
                                      branch |-> call.ts.branch]
                 /\ ~call.ts.subpath.some => sf.path = item.path
                 /\ (call.ts.subpath.some
                     /\ StartsWith(item.path, call.ts.subpath.val \o Slash))
                       => call.ts.subpath.val \o Slash \o sf.path = item.path

\* C29: for a GitHub-origin file and a response received, GitHub content()
\* answers by status: 404 PathNotFound, 403 RateLimitExceeded, any other
\* status outside 2xx GitHubError; with a 2xx status NotTextFile when the
\* body is not UTF-8 and the decoded text otherwise.
C29_ContentByStatus ==
    (call.fn = "get_file_content" /\ ret.done
        /\ call.ts.kind = "GitHub"
        /\ call.source_file.source_type.kind = "GitHub"
        /\ call.ans.st = "response")
        => LET status == call.ans.status
               success == status >= 200 /\ status <= 299
           IN /\ status = 404
                    => ~ret.val.ok /\ ret.val.err.kind = "PathNotFound"
              /\ status = 403
                    => ~ret.val.ok /\ ret.val.err.kind = "RateLimitExceeded"
              /\ (~success /\ status \notin {403, 404})
                    => ~ret.val.ok /\ ret.val.err.kind = "GitHubError"
              /\ (success /\ ~call.ans.utf8)
                    => ~ret.val.ok /\ ret.val.err.kind = "NotTextFile"
              /\ (success /\ call.ans.utf8) => ret.val = Ok(call.ans.text)

\* C29 witness: a 403 for a GitHub-origin file has been answered with
\* RateLimitExceeded.
C29_Witness ==
    /\ call.fn = "get_file_content" /\ ret.done
    /\ call.ts.kind = "GitHub"
    /\ call.source_file.source_type.kind = "GitHub"
    /\ call.ans.st = "response" /\ call.ans.status = 403
    /\ ret.val = Err(TextSourceError("RateLimitExceeded", <<>>))

\* C30: the factory goes the GitHub way exactly for the strings that start
\* with "https://github.com": it returns the GitHub backend of the parsed
\* URL or the parse error, whatever the string is as a local path.  Every
\* other string gives the file system backend for that path or the error of
\* its construction.
C30_Factory ==
    (call.fn = "create_text_source" /\ ret.done) =>
        LET source == call.input.text
            github == StartsWith(source, <<"h", "t", "t", "p", "s", ":", "/",
                                           "/">> \o GitHubHost)
        IN /\ github =>
                /\ ret.val.ok => ret.val.val.kind = "GitHub"
                /\ parse_github_url(source).ok => ret.val.ok
                /\ ~parse_github_url(source).ok
                      => ret.val = parse_github_url(source)
           /\ ~github =>
                /\ ret.val.ok <=> call.fs = "dir"
                /\ ret.val.ok
                      => ret.val.val = [kind |-> "FileSystem",
                                        base_path |-> source]
                /\ call.fs = "missing" => ret.val = Err("PathNotFound")
                /\ call.fs = "file" => ret.val = Err("InvalidSource")
                /\ call.fs = "unlistable" => ret.val = Err("PermissionDenied")

\* C30 witness: a string that starts with "https://github.com", does not
\* parse as a GitHub URL and names an existing directory has given the parse
\* error.
C30_Witness ==
    /\ call.fn = "create_text_source" /\ ret.done
    /\ StartsWith(call.input.text, GitHubPrefix)
    /\ ~parse_github_url(call.input.text).ok
    /\ call.fs = "dir"
    /\ ret.val = Err("InvalidSource")

\* C30 second case: an http URL of github.com has been taken as a local path.
C30_WitnessLocal ==
    /\ call.fn = "create_text_source" /\ ret.done
    /\ call.input.is_url /\ call.input.host = GitHubHost
    /\ call.input.scheme # HttpsScheme
    /\ ret.val.ok /\ ret.val.val.kind = "FileSystem"

\* C31: handling a key event starts no reload and no merge and changes
\* neither the file index nor the backend (nor the busy flag); the index and
\* the backend change only in a step of a reload that the driving loop runs.
C31_KeyEventFrame ==
    [][/\ nkeys' # nkeys =>
            /\ reload_task' = reload_task
            /\ merge_task' = merge_task
            /\ app'.loaded_files = app.loaded_files
            /\ app'.text_source = app.text_source
            /\ app'.processing = app.processing
       /\ (app'.loaded_files # app.loaded_files
           \/ app'.text_source # app.text_source)
            => reload_task.pc # "idle" /\ app.processing]_vars

\* C31 witness: after a reload that listed files, a key event has
\* deselected one of them: the index and the backend are still in place.
C31_Witness ==
    /\ app.loaded_files # <<>>
    /\ app.text_source.some
    /\ reload_task.pc = "idle"
    /\ \E q \in IndexPaths(app) : q \notin app.selected_files

\* the tree entries that get_file_index turned into files, in listing order
Produced ==
    SelectSeq(call.ans.tree,
              LAMBDA item : item_kept(call.ts, call.filter, item))

\* the URL that content() requests for a file of the index
RequestedUrl(source_file) ==
    GitHubSource_get_file_content(
        call.ts, source_file,
        HttpAnswer("response", 200, TRUE, <<>>)).trace[1].target

\* C32: with a subpath configured, the repository path that content()
\* requests for a file of the index (subpath, '/', file.path) is the path of
\* the tree entry the file was produced from.
C32_ContentPathIsEntryPath ==
    (GitHubIndexReturned /\ ret.val.ok /\ call.ts.subpath.some) =>
        \A i \in 1..Len(ret.val.val) :
            RequestedUrl(ret.val.val[i])
              = RawHost \o Slash \o call.ts.owner \o Slash \o call.ts.repo
                \o Slash \o call.ts.branch \o Slash \o Produced[i].path

\* the extension items of the filters panel: every item but `*`
ExtensionItems == Range(app.filters_panel.items) \ {Star}

\* the files of the index that the filters panel puts under the item e
FilesOfExtension(e) == {q \in IndexPaths(app) : LastDotPart(q) = e}

C34_StarIffAll ==
    app.loaded_files # <<>> =>
        (Star \in app.selected_extensions
           <=> ExtensionItems \subseteq app.selected_extensions)

\* C36: the focus is on the output-file panel only while the destination
\* is File or FileAndClipboard; from the output panel with destination
\* Clipboard a key that changes neither focus nor destination requests a
\* merge; the destination changes only while the output panel has the focus.
C36_OutputFileFocus ==
    [][/\ app'.focused_panel = "OutputFile"
            => app'.output_panel.destination \in {"File", "FileAndClipboard"}
       /\ (app.focused_panel = "Output"
           /\ app.output_panel.destination = "Clipboard"
           /\ app' # app
           /\ app'.focused_panel = app.focused_panel
           /\ app'.output_panel = app.output_panel)
            => app'.merge_needed
       /\ app'.output_panel.destination # app.output_panel.destination
            => app.focused_panel = "Output" /\ app'.focused_panel = "Output"
      ]_vars

\* C36 witness: with destination Clipboard, Enter on the output panel has
\* requested a merge and the focus is still there.
C36_Witness ==
    /\ app.focused_panel = "Output"
    /\ app.output_panel.destination = "Clipboard"
    /\ app.merge_needed

\* C35: when a key event moves the focus away from the source-path panel, a
\* reload is requested iff the field's value differs from the value recorded
\* when the panel was last left (at first the default path), and the value
\* is then recorded; leaving with an unchanged value, and a focus change
\* between other panels, requests nothing and records nothing.
C35_LeavingSourcePath ==
    [][nkeys' # nkeys =>
         LET left == /\ app.focused_panel = "SourcePath"
                     /\ app'.focused_panel # "SourcePath"
             differs == app'.source_path_panel.value # app.prev_source_path
         IN /\ (left /\ differs)
                 => /\ app'.reload_files_needed
                    /\ app'.prev_source_path = app'.source_path_panel.value
            /\ (app'.focused_panel # app.focused_panel /\ ~(left /\ differs))
                 => /\ app'.reload_files_needed = app.reload_files_needed
                    /\ app'.prev_source_path = app.prev_source_path]_vars

\* C35 witness: a character was typed and Enter has left the panel: the
\* reload is requested and the new value recorded.
C35_Witness ==
    /\ nkeys = 2
    /\ app.focused_panel = "Filters"
    /\ app.reload_files_needed
    /\ app.prev_source_path = app.source_path_panel.value
    /\ app.prev_source_path \notin DefaultPaths

\* C35 witness: the panel has been left a second time with the value
\* unchanged since the first, after the reload of the first had finished:
\* nothing is requested.
C35_WitnessUnchanged ==
    /\ nkeys = 4
    /\ app.focused_panel = "Filters"
    /\ ~app.reload_files_needed
    /\ mon.last_reload # "none"
    /\ app.prev_source_path = app.source_path_panel.value
    /\ app.prev_source_path \notin DefaultPaths

\* cursor and offset of a list panel are in range
PanelInRange(panel) ==
    /\ panel.offset <= panel.cursor
    /\ panel.cursor < panel.offset + 10
    /\ panel.offset <= Len(panel.items)
    /\ panel.items # <<>> => panel.cursor < Len(panel.items)
    /\ panel.items = <<>> => panel.cursor = 0

\* C37: in the filters panel and the files panel, after any Up, Down,
\* toggle and reload events, offset <= cursor < offset + 10, the offset is at
\* most the number of items, and the cursor is on an item (0 in an empty
\* list); a reload, which alone changes the items, resets cursor and offset.
C37_CursorInRange ==
    [][/\ PanelInRange(app'.filters_panel)
       /\ PanelInRange(app'.source_files_panel)
       /\ (app'.filters_panel.items # app.filters_panel.items
           \/ app'.source_files_panel.items # app.source_files_panel.items)
            => /\ app'.filters_panel.cursor = 0
               /\ app'.filters_panel.offset = 0
               /\ app'.source_files_panel.cursor = 0
               /\ app'.source_files_panel.offset = 0]_vars

\* C37 witness: the files panel has scrolled (its cursor is on the eleventh
\* file, past the first page) and a file has been deselected.
C37_Witness ==
    /\ app.focused_panel = "SourceFiles"
    /\ app.source_files_panel.cursor = 10
    /\ app.source_files_panel.offset = 1
    /\ \E q \in IndexPaths(app) : q \notin app.selected_files

\* C38: in the source-path field, after any insertions (multi-byte
\* characters included), pastes, Backspace, Left, Right, F3 and focus
\* changes, cursor_pos is between 0 and the byte length of the value and on
\* a character boundary, and no insertion, removal or draw has failed.
C38_CursorOnBoundary ==
    /\ field.pc # "panicked"
    /\ field.pc = "live" =>
          /\ 0 <= field.cursor_pos
          /\ field.cursor_pos <= Len(field.value)
          /\ is_char_boundary(field.value, field.cursor_pos)

\* C39: in the directory browser, after any next, previous, enter_directory
\* and go_up, the selected index is within the entries (0 when there are
\* none); next on the last entry wraps to the first, previous on the first
\* wraps to the last, and entering a directory or going up selects 0.
C39_SelectionInRange ==
    [][/\ browser'.entries # <<>>
            => browser'.selected < Len(browser'.entries)
       /\ browser'.entries = <<>> => browser'.selected = 0
       /\ (browser'.last = "next" /\ browser.entries # <<>>
           /\ browser.selected = Len(browser.entries) - 1)
            => browser'.selected = 0
       /\ (browser'.last = "previous" /\ browser.entries # <<>>
           /\ browser.selected = 0)
            => browser'.selected = Len(browser.entries) - 1
       /\ browser'.last \in {"enter_directory", "go_up"}
            => browser'.selected = 0]_browser

\* C39 witness: next has wrapped from the last of several entries to the
\* first.
C39_Witness ==
    /\ browser.pc = "live"
    /\ browser.last = "next"
    /\ Len(browser.entries) >= 2
    /\ browser.selected = 0

====
